---- MODULE Spec2Model ----
(***************************************************************************)
(* GlitchChess: the augmented-chess rule engine of components/ChessGame    *)
(* (handleSquareClick, the fire-ability button, the realtime handlers and  *)
(* the visual clock tick) together with lib/gameLogic (the upgrade         *)
(* spawner).  Two clients, one per colour, each hold a local copy of the   *)
(* game and exchange the state document through the store.                 *)
(*                                                                         *)
(* The chess-rules library (chess.js) is external: it is modelled by the   *)
(* contract the code relies on - piece geometry, blocking, king safety,    *)
(* castling, promotion to queen, checkmate.  En passant and the            *)
(* en-passant and counter fields of the FEN are left out.                  *)
(***************************************************************************)
EXTENDS Integers, Sequences, FiniteSets, TLC

(***************************************************************************)
(* Program constants                                                       *)
(***************************************************************************)
BoardSize == 8
SniperRange == 3
WallLifetime == 2
BuilderPlacements == 3
TargetUpgrades == 2
LosingBadly == 3
HeavyWeight == 10
TimeAddSeconds == 30
TimeSubSeconds == 15
MsPerSecond == 1000

(***************************************************************************)
(* Bounds of the model                                                     *)
(***************************************************************************)
\* longest history a committing action may still extend
MaxHistory == 3
\* Math.random() takes the values k / RandomLevels, k in 0 .. RandomLevels-1
RandomLevels == 2
\* the wall clock stops advancing at MaxNow milliseconds
MaxNow == 3000
\* one step of the wall clock, in milliseconds
TimeStep == 1000

Colors == {"w", "b"}
Other(c) == IF c = "w" THEN "b" ELSE "w"

Files == 0 .. (BoardSize - 1)
Ranks == 1 .. BoardSize
\* a square "e4" is <<file index, rank>> = <<4, 4>>
Squares == Files \X Ranks
NoSq == <<BoardSize, 0>>

Abs(n) == IF n < 0 THEN 0 - n ELSE n
Max2(a, b) == IF a > b THEN a ELSE b
Sign(n) == IF n > 0 THEN 1 ELSE IF n < 0 THEN 0 - 1 ELSE 0

\* chess.board()[r][c] is the square String.fromCharCode(97 + c) + (8 - r)
SqOfRC(r, c) == <<c, BoardSize - r>>
\* handleSquareClick: fileIndex = 'abcdefgh'.indexOf(square[0]),
\* rankIndex = parseInt(square[1]) - 1
FileIndex(sq) == sq[1]
RankIndex(sq) == sq[2] - 1

(***************************************************************************)
(* Maps (JavaScript objects keyed by square)                               *)
(***************************************************************************)
EmptyMap == [k \in {} |-> 0]
Has(m, k) == k \in DOMAIN m
MapPut(m, k, v) == [x \in (DOMAIN m) \cup {k} |-> IF x = k THEN v ELSE m[x]]
MapDel(m, k) == [x \in (DOMAIN m) \ {k} |-> m[x]]

(***************************************************************************)
(* The chess-rules library                                                 *)
(***************************************************************************)
Empty == [type |-> "-", color |-> "-"]
Pc(t, c) == [type |-> t, color |-> c]

\* a position is the map from the occupied squares to their pieces
At(bd, sq) == IF sq \in DOMAIN bd THEN bd[sq] ELSE Empty
SetAt(bd, sq, p) == IF p = Empty THEN MapDel(bd, sq) ELSE MapPut(bd, sq, p)

\* chess.get(square): the piece on the square, or nothing
Get(ch, sq) == At(ch.board, sq)
Occupied(ch, sq) == sq \in DOMAIN ch.board

\* castling rights are pairs <<colour, side>>, side "k" or "q"
NoRights == {}
KingHome(c) == <<4, IF c = "w" THEN 1 ELSE BoardSize>>
RookHome(c, side) == <<IF side = "k" THEN BoardSize - 1 ELSE 0, KingHome(c)[2]>>

\* a right is lost as soon as its king or its rook is off the home square
KeepRights(bd, rights) ==
    { r \in rights : /\ At(bd, KingHome(r[1])) = Pc("k", r[1])
                      /\ At(bd, RookHome(r[1], r[2])) = Pc("r", r[1]) }

\* chess.remove(square)
Remove(ch, sq) ==
    [ch EXCEPT !.board = MapDel(@, sq), !.rights = KeepRights(MapDel(ch.board, sq), @)]

\* the squares strictly between two squares of one line
Between(a, b) ==
    LET df == Sign(b[1] - a[1])
        dr == Sign(b[2] - a[2])
        n  == Max2(Abs(b[1] - a[1]), Abs(b[2] - a[2]))
    IN { <<a[1] + i * df, a[2] + i * dr>> : i \in 1 .. (n - 1) }

PathClear(bd, a, b) == \A s \in Between(a, b) : s \notin DOMAIN bd

PawnDir(c) == IF c = "w" THEN 1 ELSE 0 - 1
PawnHome(c) == IF c = "w" THEN 2 ELSE BoardSize - 1
LastRank(c) == IF c = "w" THEN BoardSize ELSE 1

\* piece geometry: may the piece on a go to b, ignoring king safety
Reaches(bd, a, b) ==
    LET p  == At(bd, a)
        df == b[1] - a[1]
        dr == b[2] - a[2]
    IN /\ p # Empty
       /\ a # b
       /\ At(bd, b).color # p.color
       /\ CASE p.type = "n" -> {Abs(df), Abs(dr)} = {1, 2}
            [] p.type = "k" -> Max2(Abs(df), Abs(dr)) = 1
            [] p.type = "r" -> (df = 0 \/ dr = 0) /\ PathClear(bd, a, b)
            [] p.type = "b" -> Abs(df) = Abs(dr) /\ PathClear(bd, a, b)
            [] p.type = "q" -> (df = 0 \/ dr = 0 \/ Abs(df) = Abs(dr))
                               /\ PathClear(bd, a, b)
            [] p.type = "p" ->
                 \/ /\ df = 0 /\ b \notin DOMAIN bd
                    /\ \/ dr = PawnDir(p.color)
                       \/ /\ dr = 2 * PawnDir(p.color)
                          /\ a[2] = PawnHome(p.color)
                          /\ PathClear(bd, a, b)
                 \/ /\ Abs(df) = 1 /\ dr = PawnDir(p.color)
                    /\ b \in DOMAIN bd
            [] OTHER -> FALSE

\* is the square attacked by a piece of colour c
Attacked(bd, sq, c) ==
    \E a \in DOMAIN bd :
        /\ bd[a].color = c
        /\ a # sq
        /\ IF bd[a].type = "p"
             THEN Abs(sq[1] - a[1]) = 1 /\ sq[2] - a[2] = PawnDir(c)
             ELSE Reaches(MapDel(bd, sq), a, sq)

InCheck(bd, c) ==
    \E k \in DOMAIN bd : bd[k] = Pc("k", c) /\ Attacked(bd, k, Other(c))

\* the board after the piece on a went to b (promotion always to queen)
Moved(bd, a, b) ==
    LET p == bd[a]
        q == IF p.type = "p" /\ b[2] = LastRank(p.color)
               THEN Pc("q", p.color) ELSE p
    IN MapPut(MapDel(bd, a), b, q)

\* the move is the king's two-square step of castling
IsCastle(bd, a, b) == At(bd, a).type = "k" /\ Abs(b[1] - a[1]) = 2 /\ b[2] = a[2]

\* the side the king castles to, and the square the rook lands on
CastleSide(a, b) == IF b[1] > a[1] THEN "k" ELSE "q"
RookLanding(a, b) == <<a[1] + Sign(b[1] - a[1]), a[2]>>

\* castling is allowed: the right is there, nothing stands between king and
\* rook, the king is not in check and crosses no attacked square
CanCastle(ch, a, b) ==
    LET c    == ch.turn
        rook == RookHome(c, CastleSide(a, b))
    IN /\ a = KingHome(c) /\ IsCastle(ch.board, a, b)
       /\ <<c, CastleSide(a, b)>> \in KeepRights(ch.board, ch.rights)
       /\ PathClear(ch.board, a, rook)
       /\ ~InCheck(ch.board, c)
       /\ \A s \in {RookLanding(a, b), b} : ~Attacked(ch.board, s, Other(c))

\* the board after castling: the king on b, the rook beside it
Castled(bd, a, b) ==
    LET rook == RookHome(bd[a].color, CastleSide(a, b))
    IN MapPut(MapPut(MapDel(MapDel(bd, a), rook), b, bd[a]), RookLanding(a, b), bd[rook])

\* chess.move({from, to, promotion: 'q'}) succeeds (otherwise it throws)
CanMove(ch, a, b) ==
    /\ a \in DOMAIN ch.board /\ b \in Squares
    /\ ch.board[a].color = ch.turn
    /\ \/ /\ Reaches(ch.board, a, b)
          /\ ~InCheck(Moved(ch.board, a, b), ch.turn)
       \/ CanCastle(ch, a, b)

\* the library object after a successful chess.move
Move(ch, a, b) ==
    LET bd == IF IsCastle(ch.board, a, b) THEN Castled(ch.board, a, b)
              ELSE Moved(ch.board, a, b)
    IN [board |-> bd, turn |-> Other(ch.turn), rights |-> KeepRights(bd, ch.rights)]

\* chess.isCheckmate()
IsCheckmate(ch) ==
    /\ InCheck(ch.board, ch.turn)
    /\ ~ \E a \in DOMAIN ch.board : \E b \in Squares : CanMove(ch, a, b)

\* chess.fen() and chess.load(fen): placement, side to move, castling rights
Fen(ch) == [placement |-> ch.board, side |-> ch.turn, rights |-> ch.rights]
Load(fen) == [board |-> fen.placement, turn |-> fen.side, rights |-> fen.rights]
\* a replace that finds no side-to-move token
FlipSideNoMatch(fen) == fen

\* fen.replace(` ${t} `, ` ${other} `): the side-to-move token flipped
FlipSide(fen) == [fen EXCEPT !.side = Other(fen.side)]

(***************************************************************************)
(* lib/gameLogic: the upgrade spawner                                      *)
(***************************************************************************)
UpgradeTypes ==
    << "double_move", "martyrdom", "hidden_move", "swap",
       "ghost", "necromancer", "sniper", "builder" >>

PieceValue(t) ==
    CASE t = "q" -> 9 [] t = "r" -> 5 [] t = "b" -> 3
      [] t = "n" -> 3 [] t = "p" -> 1 [] OTHER -> 0

\* chess.board()[r][c]
BoardAt(ch, r, c) == At(ch.board, SqOfRC(r, c))

\* the squares of the board in the order of the loops r = 0..7, c = 0..7
ScanOrder == [i \in 1 .. (BoardSize * BoardSize) |->
                 [x |-> (i - 1) % BoardSize, y |-> (i - 1) \div BoardSize]]

RECURSIVE SumSeq(_)
SumSeq(s) == IF s = << >> THEN 0 ELSE Head(s) + SumSeq(Tail(s))

MaterialOf(ch, color) ==
    SumSeq([i \in 1 .. Len(ScanOrder) |->
              LET p == BoardAt(ch, ScanOrder[i].y, ScanOrder[i].x)
              IN IF p.color = color THEN PieceValue(p.type) ELSE 0])

calculateMaterialScore(ch) == [w |-> MaterialOf(ch, "w"), b |-> MaterialOf(ch, "b")]

\* the squares holding a piece of the highest value on the board
Targets(ch) ==
    LET occ == { i \in 1 .. Len(ScanOrder) :
                   BoardAt(ch, ScanOrder[i].y, ScanOrder[i].x) # Empty }
        val(i) == PieceValue(BoardAt(ch, ScanOrder[i].y, ScanOrder[i].x).type)
    IN { ScanOrder[i] : i \in { j \in occ : \A k \in occ : val(k) <= val(j) } }

getDist(x1, y1, x2, y2) == Abs(x1 - x2) + Abs(y1 - y2)

CowardMoves ==
    << [dx |-> 0, dy |-> 0], [dx |-> 1, dy |-> 0], [dx |-> 0 - 1, dy |-> 0],
       [dx |-> 0, dy |-> 1], [dx |-> 0, dy |-> 0 - 1] >>

RECURSIVE SumDist(_, _, _)
SumDist(ts, nx, ny) ==
    IF ts = {} THEN 0
    ELSE LET t == CHOOSE t \in ts : TRUE
         IN getDist(nx, ny, t.x, t.y) + SumDist(ts \ {t}, nx, ny)

\* may the upgrade stand on (nx, ny): on the board, no piece, no other upgrade
CowardLegal(ch, upgrade, allUpgrades, nx, ny) ==
    /\ nx >= 0 /\ nx <= BoardSize - 1 /\ ny >= 0 /\ ny <= BoardSize - 1
    /\ BoardAt(ch, ny, nx) = Empty
    /\ ~ \E i \in 1 .. Len(allUpgrades) :
           /\ allUpgrades[i].id # upgrade.id
           /\ allUpgrades[i].x = nx /\ allUpgrades[i].y = ny

\* the loop over the five candidate moves; acc is [x, y, score]
RECURSIVE CowardScan(_, _, _, _, _, _)
CowardScan(ch, upgrade, allUpgrades, ts, i, acc) ==
    IF i > Len(CowardMoves) THEN acc
    ELSE LET nx == upgrade.x + CowardMoves[i].dx
             ny == upgrade.y + CowardMoves[i].dy
             sd == SumDist(ts, nx, ny)
         IN IF CowardLegal(ch, upgrade, allUpgrades, nx, ny) /\ sd > acc.score
              THEN CowardScan(ch, upgrade, allUpgrades, ts, i + 1,
                              [x |-> nx, y |-> ny, score |-> sd])
              ELSE CowardScan(ch, upgrade, allUpgrades, ts, i + 1, acc)

\* a relocation that keeps the last of several best candidates
moveUpgradeLastBest(upgrade, ch, allUpgrades) ==
    LET ts    == Targets(ch)
        legal == { i \in 1 .. Len(CowardMoves) :
                     CowardLegal(ch, upgrade, allUpgrades,
                                 upgrade.x + CowardMoves[i].dx, upgrade.y + CowardMoves[i].dy) }
        sd(i) == SumDist(ts, upgrade.x + CowardMoves[i].dx, upgrade.y + CowardMoves[i].dy)
        best  == { i \in legal : \A j \in legal : sd(j) <= sd(i) }
        last  == CHOOSE i \in best : \A j \in best : j <= i
    IN IF ts = {} \/ legal = {} THEN upgrade
       ELSE [upgrade EXCEPT !.x = @ + CowardMoves[last].dx, !.y = @ + CowardMoves[last].dy]

moveUpgradeCowardly(upgrade, ch, allUpgrades) ==
    LET ts == Targets(ch)
    IN IF ts = {} THEN upgrade
       ELSE LET best == CowardScan(ch, upgrade, allUpgrades, ts, 1,
                                   [x |-> upgrade.x, y |-> upgrade.y, score |-> 0 - 1])
            IN [upgrade EXCEPT !.x = best.x, !.y = best.y]

\* nextUpgrades.map(u => moveUpgradeCowardly(u, board, nextUpgrades)): every
\* upgrade is moved against the list as it was before the pass
RelocationPass(ch, ups) ==
    [i \in 1 .. Len(ups) |-> moveUpgradeCowardly(ups[i], ch, ups)]

\* Math.floor(Math.random() * n) for the modelled values of Math.random()
RandomIndex(n) == { (k * n) \div RandomLevels : k \in 0 .. (RandomLevels - 1) }

\* the squares with no piece and no upgrade, in scan order
PossibleSquares(ch, ups) ==
    SelectSeq(ScanOrder,
              LAMBDA sq : /\ BoardAt(ch, sq.y, sq.x) = Empty
                          /\ ~ \E i \in 1 .. Len(ups) :
                                 ups[i].x = sq.x /\ ups[i].y = sq.y)

\* a pool that holds every free square once, whatever the material
SpawnWeightFlat(sq, diff) == 1

SpawnWeight(sq, diff) ==
    IF (diff <= 0 - LosingBadly /\ sq.y >= 4) \/ (diff >= LosingBadly /\ sq.y <= 3)
      THEN HeavyWeight ELSE 1

RECURSIVE WeightedSquares(_, _)
WeightedSquares(sqs, diff) ==
    IF sqs = << >> THEN << >>
    ELSE [i \in 1 .. SpawnWeight(Head(sqs), diff) |-> Head(sqs)]
         \o WeightedSquares(Tail(sqs), diff)

\* the candidate pool the square is drawn from
SpawnPool(ch, ups, diff) ==
    LET ps == PossibleSquares(ch, ups)
    IN IF diff <= 0 - LosingBadly \/ diff >= LosingBadly
         THEN WeightedSquares(ps, diff) ELSE ps

\* a spawner that finds no square although squares are free
spawnNothing(ch, ups, diff, id) == {}

\* the upgrades spawnUpgrade may return (none when no square is free)
spawnUpgrade(ch, ups, diff, id) ==
    LET pool == SpawnPool(ch, ups, diff)
    IN IF PossibleSquares(ch, ups) = << >> THEN {}
       ELSE { [id |-> id, x |-> pool[i + 1].x, y |-> pool[i + 1].y,
               type |-> UpgradeTypes[t + 1]] :
              i \in RandomIndex(Len(pool)), t \in RandomIndex(Len(UpgradeTypes)) }

\* while (nextUpgrades.length < 2) { spawn or break }
RECURSIVE SpawnLoop(_, _, _, _)
SpawnLoop(ch, ups, diff, id) ==
    IF Len(ups) >= TargetUpgrades THEN {ups}
    ELSE LET new == spawnUpgrade(ch, ups, diff, id)
         IN IF new = {} THEN {ups}
            ELSE UNION { SpawnLoop(ch, Append(ups, u), diff, id + 1) : u \in new }

\* the upgrade lists processEndTurnSpawnsAndMoves may return
processEndTurnSpawnsAndMoves(ch, currentUpgrades, id) ==
    LET scores == calculateMaterialScore(ch)
    IN SpawnLoop(ch, RelocationPass(ch, currentUpgrades), scores.w - scores.b, id)

(***************************************************************************)
(* components/ChessGame: state                                             *)
(***************************************************************************)
VARIABLES
    store,    \* the room's state document in the games table
    local,    \* local[c]: the React state and chess object of the client playing c
    inbox,    \* inbox[c]: state documents notified to client c, not yet handled
    now,      \* Date.now(), in milliseconds
    idSeed,   \* the next fresh upgrade id
    ev,       \* the handler that ran last, and how it ended
    lobby     \* the home page's choice and the room page of every browser

vars == <<store, local, inbox, now, idSeed, ev, lobby>>

\* the lobby of a room whose players are both in the game
InGame == [params |-> << >>]

NoBuilder == [on |-> FALSE, source |-> NoSq, placed |-> << >>]
NoWinner == "null"
\* lastMoveTime === null
NoTime == 0

Mod(t, c) == [type |-> t, activeTurn |-> c]

\* the document a client reads when it opens the room
DocToLocal(doc) ==
    [chess |-> Load(doc.fen), turn |-> doc.turn, upgrades |-> doc.upgrades,
     modifiers |-> doc.modifiers, walls |-> doc.walls, history |-> doc.history,
     winner |-> doc.winner, timeConfig |-> doc.timeConfig,
     timeLeft |-> doc.timeLeft, lastMoveTime |-> doc.lastMoveTime,
     selectedSquare |-> NoSq, awaitingSwapSource |-> NoSq,
     sniperAttacker |-> NoSq, builderActive |-> NoBuilder]

\* handlers that leave out setHistory
ApplyNotificationNoHistory(L, doc) ==
    [L EXCEPT !.chess = Load(doc.fen), !.turn = doc.turn,
              !.upgrades = doc.upgrades, !.modifiers = doc.modifiers,
              !.walls = doc.walls,
              !.winner = doc.winner, !.timeLeft = doc.timeLeft,
              !.lastMoveTime = IF doc.lastMoveTime # NoTime
                                 THEN doc.lastMoveTime ELSE @]

\* the handlers of 'broadcast' and 'postgres_changes'
ApplyNotification(L, doc) ==
    [L EXCEPT !.chess = Load(doc.fen), !.turn = doc.turn,
              !.upgrades = doc.upgrades, !.modifiers = doc.modifiers,
              !.walls = doc.walls, !.history = doc.history,
              !.winner = doc.winner, !.timeLeft = doc.timeLeft,
              !.lastMoveTime = IF doc.lastMoveTime # NoTime
                                 THEN doc.lastMoveTime ELSE @]

\* supabase update of the row and broadcast of the document to the peer (the
\* postgres_changes notification carries the same document and is not
\* modelled apart from it)
Commit(c, L, doc, e, ids) ==
    /\ store' = doc
    /\ idSeed' = idSeed + ids
    /\ local' = [local EXCEPT ![c] = L]
    /\ inbox' = [inbox EXCEPT ![Other(c)] = Append(@, doc)]
    /\ ev' = e
    /\ UNCHANGED <<now, lobby>>

\* a handler run that touches the local state only
LocalOnly(c, L, e) ==
    /\ local' = [local EXCEPT ![c] = L]
    /\ ev' = e
    /\ UNCHANGED <<store, inbox, now, idSeed, lobby>>

Event(c, kind, from, to) == [c |-> c, kind |-> kind, from |-> from, to |-> to]

\* the guards at the head of handleSquareClick
MayAct(c) ==
    /\ local[c].winner = NoWinner
    /\ local[c].turn = c
    /\ local[c].timeLeft[c] > 0

\* currentElapsedSeconds
ElapsedSeconds(L) ==
    IF L.lastMoveTime # NoTime THEN (now - L.lastMoveTime) \div MsPerSecond ELSE 0

decayWalls(w) ==
    [sq \in { s \in DOMAIN w : w[s] - 1 > 0 } |-> w[sq] - 1]

\* is a swap, sniper or builder mode pending
Pending(L) ==
    L.awaitingSwapSource # NoSq \/ L.sniperAttacker # NoSq \/ L.builderActive.on

\* a reset that leaves the builder mode and its placements
ClearModesButBuilder(L, sel) ==
    [L EXCEPT !.selectedSquare = sel, !.sniperAttacker = NoSq,
              !.awaitingSwapSource = NoSq]

ClearModes(L, sel) ==
    [L EXCEPT !.selectedSquare = sel, !.sniperAttacker = NoSq,
              !.builderActive = NoBuilder, !.awaitingSwapSource = NoSq]

\* the manual turn flip of builder, swap and sniper
FlipTurn(ch) == Load(FlipSide(Fen(ch)))

HistoryEntry(ch, ups, mods, w, text) ==
    [fen |-> Fen(ch), upgrades |-> ups, modifiers |-> mods, walls |-> w, text |-> text]

NewState(ch, t, ups, mods, w, hist, win, cfg, tl) ==
    [fen |-> Fen(ch), turn |-> t, upgrades |-> ups, modifiers |-> mods,
     walls |-> w, history |-> hist, winner |-> win, timeConfig |-> cfg,
     timeLeft |-> tl, lastMoveTime |-> now]

NewIds(ups, before) == Len(ups) - Len(before)

(***************************************************************************)
(* handleSquareClick: guards, selection, deselection                       *)
(***************************************************************************)
\* winner set, not the client's turn, or no time left: the click is dropped
ClickBlocked(c) ==
    /\ ~MayAct(c)
    /\ LocalOnly(c, local[c], Event("-", "dropped", NoSq, NoSq))

\* no square selected: a click on an own piece selects it
SelectClick(c, sq) ==
    LET L == local[c]
    IN /\ MayAct(c)
       /\ L.selectedSquare = NoSq
       /\ IF Get(L.chess, sq).color = c
            THEN LocalOnly(c, ClearModes(L, sq), Event(c, "select", NoSq, sq))
            ELSE LocalOnly(c, L, Event("-", "dropped", NoSq, NoSq))

\* a click on the selected square deselects and leaves every pending mode;
\* the event names the square when a mode was pending
DeselectClick(c) ==
    LET L == local[c]
    IN /\ MayAct(c)
       /\ L.selectedSquare # NoSq
       /\ LocalOnly(c, ClearModes(L, NoSq),
                    Event(c, "deselect", IF Pending(L) THEN L.selectedSquare ELSE NoSq, NoSq))

\* a second click on another square
SecondClick(c, sq) ==
    /\ MayAct(c)
    /\ local[c].selectedSquare # NoSq
    /\ local[c].selectedSquare # sq

(***************************************************************************)
(* handleSquareClick: builder mode                                         *)
(***************************************************************************)
RECURSIVE SetWalls(_, _)
SetWalls(w, placed) ==
    IF placed = << >> THEN w
    ELSE SetWalls(MapPut(w, Head(placed), WallLifetime), Tail(placed))

BuilderClick(c, sq) ==
    LET L         == local[c]
        newPlaced == Append(L.builderActive.placed, sq)
        nextWalls == SetWalls(decayWalls(L.walls), newPlaced)
        nextMods  == MapDel(L.modifiers, L.builderActive.source)
        ch        == FlipTurn(L.chess)
    IN /\ SecondClick(c, sq)
       /\ L.builderActive.on
       /\ IF Occupied(L.chess, sq) \/ Has(L.walls, sq)
            THEN LocalOnly(c, L, Event("-", "dropped", NoSq, NoSq))
          ELSE IF Len(newPlaced) < BuilderPlacements
            THEN LocalOnly(c, [L EXCEPT !.builderActive.placed = newPlaced],
                           Event(c, "place", NoSq, sq))
          ELSE /\ Len(L.history) < MaxHistory
               /\ \E nextUps \in processEndTurnSpawnsAndMoves(ch, L.upgrades, idSeed) :
                    LET hist == Append(L.history,
                                       HistoryEntry(ch, nextUps, nextMods, nextWalls,
                                                    Event(c, "builder", L.builderActive.source, sq)))
                    IN Commit(c,
                              [L EXCEPT !.chess = ch, !.turn = ch.turn,
                                        !.selectedSquare = NoSq,
                                        !.builderActive = NoBuilder,
                                        !.upgrades = nextUps, !.modifiers = nextMods,
                                        !.walls = nextWalls, !.history = hist],
                              NewState(ch, Other(L.chess.turn), nextUps, nextMods, nextWalls,
                                hist,
                                       L.winner, L.timeConfig, L.timeLeft),
                              Event(c, "builder", L.builderActive.source, sq),
                              NewIds(nextUps, L.upgrades))

(***************************************************************************)
(* handleSquareClick: swap mode                                            *)
(***************************************************************************)
\* the two pieces exchanged
SwapPieces(ch, a, b) ==
    LET bd == SetAt(SetAt(ch.board, a, At(ch.board, b)), b, At(ch.board, a))
    IN [ch EXCEPT !.board = bd, !.rights = KeepRights(bd, @)]

\* the two modifier entries exchanged; an absent entry deletes the other side
SwapModifiers(m, a, b) ==
    LET m1 == IF Has(m, a) THEN MapPut(m, b, m[a]) ELSE MapDel(m, b)
    IN IF Has(m, b) THEN MapPut(m1, a, m[b]) ELSE MapDel(m1, a)

SwapClick(c, sq) ==
    LET L        == local[c]
        src      == L.awaitingSwapSource
        ch       == FlipTurn(SwapPieces(L.chess, src, sq))
        nextMods == SwapModifiers(L.modifiers, src, sq)
        nextWalls == decayWalls(L.walls)
    IN /\ SecondClick(c, sq)
       /\ ~L.builderActive.on
       /\ src # NoSq
       /\ IF Get(L.chess, sq).color = c /\ sq # src
            THEN /\ Len(L.history) < MaxHistory
                 /\ \E nextUps \in processEndTurnSpawnsAndMoves(ch, L.upgrades, idSeed) :
                      LET hist == Append(L.history,
                                         HistoryEntry(ch, nextUps, nextMods, nextWalls,
                                                      Event(c, "swap", src, sq)))
                      IN Commit(c,
                                [L EXCEPT !.chess = ch, !.awaitingSwapSource = NoSq,
                                          !.selectedSquare = NoSq, !.history = hist,
                                          !.upgrades = nextUps, !.modifiers = nextMods],
                                NewState(ch, Other(L.chess.turn), nextUps, nextMods, nextWalls,
                                hist,
                                         L.winner, L.timeConfig, L.timeLeft),
                                Event(c, "swap", src, sq),
                                NewIds(nextUps, L.upgrades))
            ELSE LocalOnly(c, L, Event("-", "dropped", NoSq, NoSq))

(***************************************************************************)
(* handleSquareClick: sniper mode                                          *)
(***************************************************************************)
\* Math.max(Math.abs(sX - tX), Math.abs(sY - tY)) on file codes and ranks
Chebyshev(a, b) == Max2(Abs(a[1] - b[1]), Abs(a[2] - b[2]))

\* a shot that removes whatever piece it hits, the king included
SniperShotRemoves(ch, sq) == Remove(ch, sq)

\* the position after the shot: a king stays, any other target is removed
SniperShot(ch, sq) == IF Get(ch, sq).type = "k" THEN ch ELSE Remove(ch, sq)

\* the modifier map after the shot: the attacker's entry is deleted
SniperModifiers(m, attacker, sq) == MapDel(m, attacker)

SniperClick(c, sq) ==
    LET L         == local[c]
        att       == L.sniperAttacker
        target    == Get(L.chess, sq)
        nextWin   == IF target.type = "k" THEN c ELSE L.winner
        ch        == FlipTurn(SniperShot(L.chess, sq))
        nextMods  == SniperModifiers(L.modifiers, att, sq)
        nextWalls == decayWalls(L.walls)
    IN /\ SecondClick(c, sq)
       /\ ~L.builderActive.on
       /\ L.awaitingSwapSource = NoSq
       /\ att # NoSq
       /\ IF target # Empty /\ target.color # c /\ Chebyshev(att, sq) <= SniperRange
            THEN /\ Len(L.history) < MaxHistory
                 /\ \E nextUps \in processEndTurnSpawnsAndMoves(ch, L.upgrades, idSeed) :
                      LET hist == Append(L.history,
                                         HistoryEntry(ch, nextUps, nextMods, nextWalls,
                                                      Event(c, "sniper", att, sq)))
                      IN Commit(c,
                                [L EXCEPT !.chess = ch, !.turn = ch.turn,
                                          !.sniperAttacker = NoSq,
                                          !.selectedSquare = NoSq, !.history = hist,
                                          !.winner = nextWin,
                                          !.upgrades = nextUps, !.modifiers = nextMods,
                                          !.walls = nextWalls],
                                NewState(ch, Other(L.chess.turn), nextUps, nextMods, nextWalls,
                                hist,
                                         nextWin, L.timeConfig, L.timeLeft),
                                Event(c, "sniper", att, sq),
                                NewIds(nextUps, L.upgrades))
            ELSE LocalOnly(c, L, Event("-", "dropped", NoSq, NoSq))

(***************************************************************************)
(* handleSquareClick: ordinary and ghost moves                             *)
(***************************************************************************)
IsGhostSource(L) ==
    Has(L.modifiers, L.selectedSquare) /\ L.modifiers[L.selectedSquare].type = "ghost"

\* the position the ghost check tries the move in: every piece that is not a
\* king and stands on neither the source nor the destination is taken away
GhostSparse(ch, sel, sq) ==
    LET bd == [s \in { t \in DOMAIN ch.board :
                          t = sel \/ t = sq \/ ch.board[t].type = "k" } |-> ch.board[s]]
    IN [ch EXCEPT !.board = bd, !.rights = KeepRights(bd, @)]

ValidGhost(ch, sel, sq) == CanMove(GhostSparse(ch, sel, sq), sel, sq)

\* a failed trial that leaves the thinned-out position loaded
GhostNoRestore(ch, sel, sq) == GhostSparse(ch, sel, sq)

\* chess.load(initFen) after the trial: the position as it was before it
GhostRestore(ch, sel, sq) == Load(Fen(ch))

\* the ghost move executed by hand: remove, capture, put, flip the side to move
GhostMove(ch, sel, sq) ==
    LET bd == MapPut(MapDel(ch.board, sel), sq, ch.board[sel])
    IN [board |-> bd, turn |-> Other(ch.turn), rights |-> KeepRights(bd, ch.rights)]

\* a wall check that lets every click through
WallNeverBlocks(L, sq) == FALSE

\* does the destination wall stop the click (checked before the ghost branch)
WallBlocks(L, sq) == Has(L.walls, sq)

\* the click is a move the handler carries out
MoveAccepted(L, sq) ==
    /\ ~WallBlocks(L, sq)
    /\ IF IsGhostSource(L) THEN ValidGhost(L.chess, L.selectedSquare, sq)
                           ELSE CanMove(L.chess, L.selectedSquare, sq)

\* a modifier of the source square that is consumed by the move
ConsumedOnMove(t) == t \in {"double_move", "ghost"}

\* a transfer that also drops the entry of a captured piece
TransferModifierClearsTarget(m, sel, sq) ==
    IF Has(m, sel)
      THEN IF ConsumedOnMove(m[sel].type) THEN MapDel(MapDel(m, sel), sq)
           ELSE MapPut(MapDel(m, sel), sq, m[sel])
      ELSE MapDel(m, sq)

\* step 1: the source square's modifier is deleted and, unless consumed,
\* written to the destination
TransferModifier(m, sel, sq) ==
    IF Has(m, sel)
      THEN IF ConsumedOnMove(m[sel].type) THEN MapDel(m, sel)
           ELSE MapPut(MapDel(m, sel), sq, m[sel])
      ELSE m

\* the necromancer branch: its body, the pawn put, is commented out
Necromancer(ch, m, sel, sq, c) == ch

\* nextTimeLeft after the elapsed seconds are charged to the mover
ChargeElapsed(L, c) ==
    IF L.lastMoveTime # NoTime
      THEN [L.timeLeft EXCEPT ![c] = Max2(0, @ - ElapsedSeconds(L))]
      ELSE L.timeLeft

\* nextUpgrades.findIndex(u => u.x === fileIndex && u.y === 7 - rankIndex)
ConsumedIndex(ups, sq) ==
    LET hit == { i \in 1 .. Len(ups) :
                   ups[i].x = FileIndex(sq) /\ ups[i].y = (BoardSize - 1) - RankIndex(sq) }
    IN IF hit = {} THEN 0 ELSE CHOOSE i \in hit : \A j \in hit : i <= j

\* nextUpgrades.splice(i, 1)
Splice(ups, i) == [k \in 1 .. (Len(ups) - 1) |-> IF k < i THEN ups[k] ELSE ups[k + 1]]

\* a pickup that leaves a modifier the piece brought along in place
PickUpUnlessCarried(m, sq, upgrade, t) ==
    IF Has(m, sq) THEN m ELSE MapPut(m, sq, Mod(upgrade.type, t))

\* nextModifiers[square] = { type: upgrade.type, activeTurn: chess.turn() }
PickUp(m, sq, upgrade, t) == MapPut(m, sq, Mod(upgrade.type, t))

\* time upgrades whose time_sub is not floored at zero
TimeUpgradesNoFloor(m, tl, sq, c) ==
    IF Has(m, sq) /\ m[sq].type = "time_add"
      THEN <<MapDel(m, sq), [tl EXCEPT ![c] = @ + TimeAddSeconds]>>
    ELSE IF Has(m, sq) /\ m[sq].type = "time_sub"
      THEN <<MapDel(m, sq), [tl EXCEPT ![Other(c)] = @ - TimeSubSeconds]>>
    ELSE <<m, tl>>

\* time_add and time_sub fire on landing; tm is <<modifiers, timeLeft>>
TimeUpgrades(m, tl, sq, c) ==
    IF Has(m, sq) /\ m[sq].type = "time_add"
      THEN <<MapDel(m, sq), [tl EXCEPT ![c] = @ + TimeAddSeconds]>>
    ELSE IF Has(m, sq) /\ m[sq].type = "time_sub"
      THEN <<MapDel(m, sq), [tl EXCEPT ![Other(c)] = Max2(0, @ - TimeSubSeconds)]>>
    ELSE <<m, tl>>

\* the increment, added when the turn passed
AddIncrement(tl, c, currentTurn, turn, increment) ==
    IF currentTurn # turn THEN [tl EXCEPT ![c] = @ + increment] ELSE tl

\* a sniper branch that falls through to the move
ModeFreeButSniper(L) ==
    ~L.builderActive.on /\ L.awaitingSwapSource = NoSq

\* the builder, swap and sniper branches all return: the move code is
\* reached only when no mode is pending
ModeFree(L) ==
    ~L.builderActive.on /\ L.awaitingSwapSource = NoSq /\ L.sniperAttacker = NoSq

MoveClick(c, sq) ==
    LET L      == local[c]
        sel    == L.selectedSquare
        ghost  == IsGhostSource(L)
        srcMod == Has(L.modifiers, sel)
        \* the move itself
        ch1    == IF ghost THEN GhostMove(L.chess, sel, sq) ELSE Move(L.chess, sel, sq)
        win1   == IF ghost /\ Get(L.chess, sq).type = "k" THEN c ELSE L.winner
        win2   == IF IsCheckmate(ch1) THEN c ELSE win1
        \* post-move modifier checks
        dbl    == srcMod /\ L.modifiers[sel].type = "double_move"
        ch2    == IF dbl THEN FlipTurn(ch1) ELSE ch1
        \* currentTurn: chess.turn() after the move, flipped with the fen
        cur    == IF dbl THEN Other(ch1.turn) ELSE ch1.turn
        ch3    == IF srcMod /\ L.modifiers[sel].type = "necromancer" /\ ~Occupied(ch2, sq)
                    THEN Necromancer(ch2, L.modifiers, sel, sq, c) ELSE ch2
        mods1  == TransferModifier(L.modifiers, sel, sq)
        walls1 == decayWalls(L.walls)
        tl1    == ChargeElapsed(L, c)
        \* pickup
        ci     == ConsumedIndex(L.upgrades, sq)
        ups1   == IF ci # 0 THEN Splice(L.upgrades, ci) ELSE L.upgrades
        swapUp == ci # 0 /\ L.upgrades[ci].type = "swap"
        mods2  == IF ci # 0 THEN PickUp(mods1, sq, L.upgrades[ci], ch3.turn) ELSE mods1
        tm     == TimeUpgrades(mods2, tl1, sq, c)
        tl2    == AddIncrement(tm[2], c, ch3.turn, L.turn, L.timeConfig.increment)
        kind   == IF ghost THEN "ghost" ELSE "move"
    IN /\ SecondClick(c, sq)
       /\ ModeFree(L)
       /\ IF ~MoveAccepted(L, sq)
            \* the catch block: select the clicked piece if it is an own piece
            THEN LocalOnly(c, ClearModes([L EXCEPT !.chess = IF ghost /\ ~WallBlocks(L, sq)
                                                              THEN GhostRestore(@, sel, sq) ELSE @],
                                         IF Get(L.chess, sq).color = c THEN sq ELSE NoSq),
                           IF WallBlocks(L, sq) THEN Event(c, "caughtWall", sel, sq)
                           ELSE IF ghost THEN Event(c, "caughtGhost", NoSq, NoSq)
                           ELSE Event(c, "caught", NoSq, NoSq))
          ELSE IF swapUp
            \* landing on a swap pickup: swap mode at once, nothing is written
            THEN LET ch4 == FlipTurn(ch3)
                 IN LocalOnly(c, [L EXCEPT !.awaitingSwapSource = sq, !.chess = ch4,
                                           !.turn = ch4.turn, !.selectedSquare = NoSq,
                                           !.upgrades = ups1, !.modifiers = mods1],
                              Event(c, "swapPickup", sel, sq))
          ELSE /\ Len(L.history) < MaxHistory
               /\ \E nextUps \in processEndTurnSpawnsAndMoves(ch3, ups1, idSeed) :
                    LET hist == Append(L.history,
                                       HistoryEntry(ch3, nextUps, tm[1], L.walls,
                                                    Event(c, kind, sel, sq)))
                    IN Commit(c,
                              [L EXCEPT !.chess = ch3, !.turn = ch3.turn,
                                        !.selectedSquare = NoSq,
                                        !.upgrades = nextUps, !.modifiers = tm[1],
                                        !.walls = walls1, !.timeLeft = tl2,
                                        !.lastMoveTime = now, !.history = hist,
                                        !.winner = win2],
                              NewState(ch3, cur, nextUps, tm[1], walls1, hist,
                                       win2, L.timeConfig, tl2),
                              Event(c, kind, sel, sq),
                              NewIds(nextUps, ups1))

(***************************************************************************)
(* The fire-ability button, the realtime handlers, the clock               *)
(***************************************************************************)
FireAbility(c) ==
    LET L   == local[c]
        sel == L.selectedSquare
    IN /\ sel # NoSq
       /\ Has(L.modifiers, sel)
       /\ L.modifiers[sel].type \in {"sniper", "builder", "swap"}
       /\ L.sniperAttacker = NoSq /\ ~L.builderActive.on /\ L.awaitingSwapSource = NoSq
       /\ L.winner = NoWinner
       /\ LocalOnly(c,
             CASE L.modifiers[sel].type = "sniper" -> [L EXCEPT !.sniperAttacker = sel]
               [] L.modifiers[sel].type = "builder" ->
                    [L EXCEPT !.builderActive = [on |-> TRUE, source |-> sel, placed |-> << >>]]
               [] OTHER -> [L EXCEPT !.awaitingSwapSource = sel],
             Event(c, "fire", NoSq, NoSq))

\* a notified state document reaches the client
Deliver(c) ==
    /\ inbox[c] # << >>
    /\ local' = [local EXCEPT ![c] = ApplyNotification(@, Head(inbox[c]))]
    /\ inbox' = [inbox EXCEPT ![c] = Tail(@)]
    /\ ev' = Event(c, "deliver", NoSq, NoSq)
    /\ UNCHANGED <<store, now, idSeed, lobby>>

\* a tick without the floor at zero
TickedTimeNoFloor(L) == [L.timeLeft EXCEPT ![L.turn] = @ - 1]

\* the visual tick of the one-second interval
TickedTime(L) == [L.timeLeft EXCEPT ![L.turn] = Max2(0, @ - 1)]

VisualTick(c) ==
    /\ local[c].lastMoveTime # NoTime
    /\ LocalOnly(c, [local[c] EXCEPT !.timeLeft = TickedTime(local[c])],
                 Event(c, "tick", NoSq, NoSq))

AdvanceTime ==
    /\ now + TimeStep <= MaxNow
    /\ now' = now + TimeStep
    /\ ev' = Event("-", "time", NoSq, NoSq)
    /\ UNCHANGED <<store, local, inbox, idSeed, lobby>>

(***************************************************************************)
(* Initial states: positions of a game in progress                         *)
(***************************************************************************)
\* the board holding the given <<square, piece>> pairs
Place(ps) == [s \in { p[1] : p \in ps } |-> (CHOOSE p \in ps : p[1] = s)[2]]

Up(id, x, y, t) == [id |-> id, x |-> x, y |-> y, type |-> t]

\* useState({ base: 300, increment: 3 }): the room document never overrides it
DefaultTimeConfig == [base |-> 300, increment |-> 3]

\* the wall clock at the first state, and the time of the last committed move
StartNow == MsPerSecond

\* White to move: a sniper pawn on d4 in range of the king on g7 and of a
\* pawn that carries a modifier; a necromancer pawn that can capture on b5
ScenarioSniper ==
    [board |-> Place({ << <<0, 1>>, Pc("k", "w") >>, << <<3, 4>>, Pc("p", "w") >>,
                       << <<0, 4>>, Pc("p", "w") >>,
                       << <<6, 7>>, Pc("k", "b") >>, << <<4, 6>>, Pc("p", "b") >>,
                       << <<1, 5>>, Pc("p", "b") >> }),
     turn |-> "w",
     upgrades |-> << Up(1, 3, 2, "builder"), Up(2, 3, 3, "hidden_move") >>,
     modifiers |-> [s \in { <<3, 4>>, <<4, 6>>, <<0, 4>> } |->
                      IF s = <<3, 4>> THEN Mod("sniper", "b")
                      ELSE IF s = <<4, 6>> THEN Mod("martyrdom", "w")
                      ELSE Mod("necromancer", "b")],
     walls |-> EmptyMap]

\* White to move: a double_move knight that can capture a pawn carrying
\* double_move, a ghost pawn on f2 with a wall on f3, a wall on d2 in the
\* knight's reach, a swap pickup on g3
ScenarioGhost ==
    [board |-> Place({ << <<7, 1>>, Pc("k", "w") >>, << <<1, 1>>, Pc("n", "w") >>,
                       << <<5, 2>>, Pc("p", "w") >>,
                       << <<4, 8>>, Pc("k", "b") >>, << <<2, 3>>, Pc("p", "b") >> }),
     turn |-> "w",
     upgrades |-> << Up(1, 6, 5, "swap"), Up(2, 0, 5, "sniper") >>,
     modifiers |-> [s \in { <<1, 1>>, <<2, 3>>, <<5, 2>> } |->
                      IF s = <<5, 2>> THEN Mod("ghost", "b") ELSE Mod("double_move", "b")],
     walls |-> [s \in { <<5, 3>>, <<3, 2>>, <<6, 6>> } |-> WallLifetime]]

\* Black to move: a builder knight and a swap king; the white queen is the
\* only piece of the highest value and two upgrades stand diagonally
ScenarioBuilder ==
    [board |-> Place({ << <<7, 1>>, Pc("k", "w") >>, << <<4, 6>>, Pc("q", "w") >>,
                       << <<7, 8>>, Pc("k", "b") >>, << <<6, 8>>, Pc("n", "b") >> }),
     turn |-> "b",
     upgrades |-> << Up(1, 0, 3, "ghost"), Up(2, 1, 4, "martyrdom") >>,
     modifiers |-> [s \in { <<6, 8>>, <<7, 8>> } |->
                      IF s = <<6, 8>> THEN Mod("builder", "w") ELSE Mod("swap", "w")],
     walls |-> EmptyMap]

Scenarios == {ScenarioSniper, ScenarioGhost, ScenarioBuilder}

\* the document of a scenario, as the second committed action of the game
\* left it
ScenarioDoc(sc) ==
    LET fen == [placement |-> sc.board, side |-> sc.turn, rights |-> NoRights]
    IN [fen |-> fen, turn |-> sc.turn, upgrades |-> sc.upgrades,
        modifiers |-> sc.modifiers, walls |-> sc.walls,
        history |-> << [fen |-> fen, upgrades |-> sc.upgrades,
                        modifiers |-> sc.modifiers, walls |-> sc.walls,
                        text |-> Event(sc.turn, "builder", NoSq, NoSq)],
                       [fen |-> fen, upgrades |-> sc.upgrades,
                        modifiers |-> sc.modifiers, walls |-> sc.walls,
                        text |-> Event(Other(sc.turn), "sniper", NoSq, NoSq)] >>,
        winner |-> NoWinner, timeConfig |-> DefaultTimeConfig,
        timeLeft |-> [w |-> 4, b |-> 3], lastMoveTime |-> StartNow]

\* the document of a scenario, as the first committed action of the game
\* left it
EarlyDoc(sc) == [ScenarioDoc(sc) EXCEPT !.history = SubSeq(@, 2, 2)]

\* the squares a player drops builder walls on
WallSquares == { <<6, 8>>, <<4, 4>>, <<4, 5>> }

Init ==
    \E sc \in Scenarios :
        /\ store = ScenarioDoc(sc)
        /\ local = [c \in Colors |-> DocToLocal(ScenarioDoc(sc))]
        /\ inbox = [c \in Colors |-> << >>]
        /\ now = StartNow
        /\ idSeed = 3
        /\ ev = Event("-", "init", NoSq, NoSq)
        /\ lobby = InGame

Next ==
    \/ \E c \in Colors : ClickBlocked(c)
    \/ \E c \in Colors, sq \in Squares : SelectClick(c, sq)
    \/ \E c \in Colors : DeselectClick(c)
    \/ \E c \in Colors, sq \in WallSquares : BuilderClick(c, sq)
    \/ \E c \in Colors, sq \in Squares : SwapClick(c, sq)
    \/ \E c \in Colors, sq \in Squares : SniperClick(c, sq)
    \/ \E c \in Colors, sq \in Squares : MoveClick(c, sq)
    \/ \E c \in Colors : FireAbility(c)
    \/ \E c \in Colors : Deliver(c)

Spec == Init /\ [][Next]_vars

\* White to move with both clocks nearly run down: a sniper king in range of
\* the pawn on b4, a builder pawn on h2 and a swap pawn on g2
ScenarioClock ==
    [board |-> Place({ << <<0, 1>>, Pc("k", "w") >>, << <<7, 2>>, Pc("p", "w") >>,
                       << <<6, 2>>, Pc("p", "w") >>,
                       << <<7, 8>>, Pc("k", "b") >>, << <<1, 4>>, Pc("p", "b") >> }),
     turn |-> "w",
     upgrades |-> << Up(1, 3, 3, "martyrdom"), Up(2, 4, 3, "hidden_move") >>,
     modifiers |-> [s \in { <<0, 1>>, <<7, 2>>, <<6, 2>> } |->
                      IF s = <<0, 1>> THEN Mod("sniper", "b")
                      ELSE IF s = <<7, 2>> THEN Mod("builder", "b")
                      ELSE Mod("swap", "b")],
     walls |-> EmptyMap]

\* the document of the clock scenario: two seconds left for White, one for
\* Black
ClockDoc == [ScenarioDoc(ScenarioClock) EXCEPT !.timeLeft = [w |-> 2, b |-> 1]]

InitClock ==
    /\ store = ClockDoc
    /\ local = [c \in Colors |-> DocToLocal(ClockDoc)]
    /\ inbox = [c \in Colors |-> << >>]
    /\ now = StartNow
    /\ idSeed = 3
    /\ ev = Event("-", "init", NoSq, NoSq)
    /\ lobby = InGame

\* the squares the players click in the clock scenario
ClockSquares == { <<0, 1>>, <<0, 2>>, <<7, 2>>, <<7, 3>>, <<6, 2>>, <<1, 4>>, <<7, 8>> }
ClockWallSquares == { <<4, 4>> }

\* the same handlers with the wall clock running and the display ticking
NextClock ==
    \/ \E c \in Colors : ClickBlocked(c)
    \/ \E c \in Colors, sq \in ClockSquares : SelectClick(c, sq)
    \/ \E c \in Colors : DeselectClick(c)
    \/ \E c \in Colors, sq \in ClockWallSquares : BuilderClick(c, sq)
    \/ \E c \in Colors, sq \in ClockSquares : SwapClick(c, sq)
    \/ \E c \in Colors, sq \in ClockSquares : SniperClick(c, sq)
    \/ \E c \in Colors, sq \in ClockSquares : MoveClick(c, sq)
    \/ \E c \in Colors : FireAbility(c)
    \/ \E c \in Colors : Deliver(c)
    \/ \E c \in Colors : VisualTick(c)
    \/ AdvanceTime

SpecClock == InitClock /\ [][NextClock]_vars

(***************************************************************************)
(* Properties                                                              *)
(***************************************************************************)
\* the square of an upgrade: file x, rank 8 - y
UpgradeSquare(u) == SqOfRC(u.y, u.x)

\* the game part of a client's state
GameOf(L) == <<L.chess, L.turn, L.upgrades, L.modifiers, L.walls, L.timeLeft,
               L.history, L.winner>>

\* C1: in every committed state no square holds both an upgrade and a
\* modifier
C1_NoUpgradeOnModifierSquare ==
    \A i \in 1 .. Len(store.upgrades) :
        UpgradeSquare(store.upgrades[i]) \notin DOMAIN store.modifiers

\* C2: in every committed state every key of the modifier map is a square
\* occupied by a piece
C2_ModifiersOnPieces ==
    \A sq \in DOMAIN store.modifiers : sq \in DOMAIN store.fen.placement

\* C3: after the end-of-turn passes no two upgrades of the committed list
\* stand on the same (x, y)
C3_UpgradesOnDistinctSquares ==
    \A i, j \in 1 .. Len(store.upgrades) :
        i # j => <<store.upgrades[i].x, store.upgrades[i].y>>
                 # <<store.upgrades[j].x, store.upgrades[j].y>>

\* C4: a committed upgrade list holds exactly two upgrades, fewer only when
\* no square free of pieces and upgrades remains, and never more than two
C4_TwoUpgrades ==
    /\ Len(store.upgrades) <= TargetUpgrades
    /\ Len(store.upgrades) < TargetUpgrades
         => PossibleSquares(Load(store.fen), store.upgrades) = << >>

\* C4 witness: a move consumed an upgrade and the spawner refilled the list
C4_Witness ==
    /\ ev.kind = "move"
    /\ Len(store.upgrades) = TargetUpgrades
    /\ \E i \in 1 .. Len(store.upgrades) : store.upgrades[i].id >= 3

\* C7 (as claimed): a move of a double_move piece from S to T, T without an
\* upgrade, commits the mover's colour as turn, no modifier at S and no
\* double_move at T
C7_DoubleMove ==
    [][ ( /\ ev'.kind = "move"
          /\ Has(local[ev'.c].modifiers, ev'.from)
          /\ local[ev'.c].modifiers[ev'.from].type = "double_move"
          /\ ConsumedIndex(local[ev'.c].upgrades, ev'.to) = 0 )
        => ( /\ store'.turn = ev'.c
             /\ ev'.from \notin DOMAIN store'.modifiers
             /\ ~ ( /\ ev'.to \in DOMAIN store'.modifiers
                    /\ store'.modifiers[ev'.to].type = "double_move" ) ) ]_vars

\* C8 (as claimed): a capturing move of a necromancer piece from S to T
\* commits a pawn of the mover's colour on S and no necromancer at S or T
C8_Necromancer ==
    [][ ( /\ ev'.kind = "move"
          /\ Has(local[ev'.c].modifiers, ev'.from)
          /\ local[ev'.c].modifiers[ev'.from].type = "necromancer"
          /\ Occupied(local[ev'.c].chess, ev'.to) )
        => ( /\ At(store'.fen.placement, ev'.from) = Pc("p", ev'.c)
             /\ \A sq \in {ev'.from, ev'.to} :
                  ~ ( /\ sq \in DOMAIN store'.modifiers
                      /\ store'.modifiers[sq].type = "necromancer" ) ) ]_vars

\* the step is a sniper shot at the enemy king
SniperAtKing ==
    /\ ev'.kind = "sniper"
    /\ Get(local[ev'.c].chess, ev'.to) = Pc("k", Other(ev'.c))
    /\ Chebyshev(ev'.from, ev'.to) <= SniperRange

\* C9 (as claimed): a sniper shot at the enemy king within range commits
\* winner = c and a position without the king on the clicked square
C9_SniperRemovesKing ==
    [][ SniperAtKing
        => ( /\ store'.winner = ev'.c
             /\ ev'.to \notin DOMAIN store'.fen.placement ) ]_vars

\* C9 (amended): a sniper shot at the enemy king within range commits
\* winner = c, and the king is still on the clicked square
C9_SniperWinsKingStays ==
    [][ SniperAtKing
        => ( /\ store'.winner = ev'.c
             /\ At(store'.fen.placement, ev'.to) = Pc("k", Other(ev'.c)) ) ]_vars

\* C9 witness: a committed sniper shot at a king
C9_Witness ==
    /\ ev.kind = "sniper"
    /\ store.winner = ev.c
    /\ At(store.fen.placement, ev.to) = Pc("k", Other(ev.c))

\* C10 (as claimed): a ghost piece clicked onto a walled square that the
\* ghost geometry allows is moved there
C10_GhostEntersWall ==
    [][ ( /\ ev'.kind \in {"caughtWall", "ghost", "move"}
          /\ IsGhostSource(local[ev'.c])
          /\ local[ev'.c].selectedSquare = ev'.from
          /\ ev'.to \in DOMAIN local[ev'.c].walls
          /\ ValidGhost(local[ev'.c].chess, ev'.from, ev'.to) )
        => ( /\ ev'.kind = "ghost"
             /\ Get(local'[ev'.c].chess, ev'.to) = Get(local[ev'.c].chess, ev'.from)
             /\ ~Occupied(local'[ev'.c].chess, ev'.from) ) ]_vars

\* C5: the remaining time of neither side is ever negative, in the local
\* state of either client and in the store
C5_TimeNeverNegative ==
    /\ \A k \in Colors : store.timeLeft[k] >= 0
    /\ \A c \in Colors : \A k \in Colors : local[c].timeLeft[k] >= 0

\* C5 witness: display ticks have run a client's clock of the side to move
\* down to zero while the store still holds time for that side
C5_Witness ==
    /\ ev.kind = "tick"
    /\ \E c \in Colors : /\ local[c].timeLeft[local[c].turn] = 0
                         /\ store.timeLeft[local[c].turn] > 0

\* the handler dropped the click or threw it into the catch block
Rejected == {"dropped", "caught", "caughtWall", "caughtGhost"}

\* C6: a rejected click leaves position, turn, upgrades, modifiers, walls,
\* clock, history and winner as they were, locally and in the store
C6_RejectedClickChangesNothing ==
    [][ ev'.kind \in Rejected
        => ( /\ store' = store
             /\ \A c \in Colors : GameOf(local'[c]) = GameOf(local[c]) ) ]_vars

\* C6 witness: an invalid ghost move was thrown into the catch block
C6_Witness ==
    /\ ev.kind = "caughtGhost"
    /\ local[ev.c].turn = ev.c
    /\ \E sq \in DOMAIN local[ev.c].modifiers : local[ev.c].modifiers[sq].type = "ghost"

\* the step is a click of a selected piece without ghost on a walled square
\* that the handler took as a move attempt
WallClick ==
    /\ ev'.kind \in {"move", "swapPickup", "caughtWall"}
    /\ ~IsGhostSource(local[ev'.c])
    /\ ev'.to \in DOMAIN local[ev'.c].walls
    /\ local[ev'.c].walls[ev'.to] > 0

\* C11: a click of a piece without ghost on a walled destination is
\* rejected: the position and the turn stay as they were, locally and in the
\* store
C11_WallRejectsOrdinaryMove ==
    [][ WallClick
        => ( /\ ev'.kind = "caughtWall"
             /\ local'[ev'.c].chess = local[ev'.c].chess
             /\ local'[ev'.c].turn = local[ev'.c].turn
             /\ store' = store ) ]_vars

\* C11 witness: a move the chess rules allow was thrown out by a wall
C11_Witness ==
    /\ ev.kind = "caughtWall"
    /\ ev.from \notin DOMAIN local[ev.c].modifiers
         \/ local[ev.c].modifiers[ev.from].type # "ghost"
    /\ CanMove(local[ev.c].chess, ev.from, ev.to)

(***************************************************************************)
(* Ghost moves                                                             *)
(***************************************************************************)
\* White to move: a ghost rook on a1; on its file an upgrade of type ghost on
\* a2, a black pawn carrying ghost on a4 and, behind the pawn, the black king
ScenarioRook ==
    [board |-> Place({ << <<7, 1>>, Pc("k", "w") >>, << <<0, 1>>, Pc("r", "w") >>,
                       << <<0, 8>>, Pc("k", "b") >>, << <<0, 4>>, Pc("p", "b") >> }),
     turn |-> "w",
     upgrades |-> << Up(1, 0, 6, "ghost"), Up(2, 5, 3, "martyrdom") >>,
     modifiers |-> [s \in { <<0, 1>>, <<0, 4>> } |-> Mod("ghost", "b")],
     walls |-> [s \in { <<4, 5>> } |-> WallLifetime]]

InitGhost ==
    /\ store = EarlyDoc(ScenarioRook)
    /\ local = [c \in Colors |-> DocToLocal(EarlyDoc(ScenarioRook))]
    /\ inbox = [c \in Colors |-> << >>]
    /\ now = StartNow
    /\ idSeed = 3
    /\ ev = Event("-", "init", NoSq, NoSq)
    /\ lobby = InGame

\* the squares the players click in the rook scenario
GhostSquares ==
    { <<0, 1>>, <<0, 2>>, <<0, 3>>, <<0, 4>>, <<0, 8>>, <<1, 3>>, <<7, 1>>, <<1, 1>>, <<3, 1>> }

NextGhost ==
    \/ \E c \in Colors : ClickBlocked(c)
    \/ \E c \in Colors, sq \in GhostSquares : SelectClick(c, sq)
    \/ \E c \in Colors : DeselectClick(c)
    \/ \E c \in Colors, sq \in GhostSquares : MoveClick(c, sq)
    \/ \E c \in Colors : Deliver(c)

SpecGhost == InitGhost /\ [][NextGhost]_vars

\* a modifier of the given type is present on the square
HasType(m, sq, t) == sq \in DOMAIN m /\ m[sq].type = t

\* C12 (as claimed): a committed ghost move from S to T leaves the ghost
\* modifier on neither S nor T, passes the turn to the opponent, replaces a
\* piece on T that is not a king, and commits the mover as winner when T held
\* the enemy king
C12_GhostMove ==
    [][ ev'.kind = "ghost"
        => ( /\ ~HasType(store'.modifiers, ev'.from, "ghost")
             /\ ~HasType(store'.modifiers, ev'.to, "ghost")
             /\ store'.turn = Other(ev'.c)
             /\ At(store'.fen.placement, ev'.to) = Get(local[ev'.c].chess, ev'.from)
             /\ ev'.from \notin DOMAIN store'.fen.placement
             /\ Get(local[ev'.c].chess, ev'.to) = Pc("k", Other(ev'.c))
                  => store'.winner = ev'.c ) ]_vars

(***************************************************************************)
(* Swap                                                                    *)
(***************************************************************************)
\* White to move: a rook on a1 carrying swap next to a knight without a
\* modifier, a pawn on g2 below an upgrade of type swap on g3, a wall on g4
ScenarioSwap ==
    [board |-> Place({ << <<4, 1>>, Pc("k", "w") >>, << <<0, 1>>, Pc("r", "w") >>,
                       << <<1, 1>>, Pc("n", "w") >>, << <<6, 2>>, Pc("p", "w") >>,
                       << <<4, 8>>, Pc("k", "b") >> }),
     turn |-> "w",
     upgrades |-> << Up(1, 6, 5, "swap"), Up(2, 2, 2, "martyrdom") >>,
     modifiers |-> [s \in { <<0, 1>> } |-> Mod("swap", "b")],
     walls |-> [s \in { <<6, 4>> } |-> WallLifetime]]

InitSwap ==
    /\ store = EarlyDoc(ScenarioSwap)
    /\ local = [c \in Colors |-> DocToLocal(EarlyDoc(ScenarioSwap))]
    /\ inbox = [c \in Colors |-> << >>]
    /\ now = StartNow
    /\ idSeed = 3
    /\ ev = Event("-", "init", NoSq, NoSq)
    /\ lobby = InGame

\* the squares the players click in the swap scenario
SwapSquares ==
    { <<0, 1>>, <<1, 1>>, <<6, 2>>, <<6, 3>>, <<6, 4>>, <<4, 8>>, <<4, 7>>, <<7, 5>> }

NextSwap ==
    \/ \E c \in Colors : ClickBlocked(c)
    \/ \E c \in Colors, sq \in SwapSquares : SelectClick(c, sq)
    \/ \E c \in Colors : DeselectClick(c)
    \/ \E c \in Colors, sq \in SwapSquares : SwapClick(c, sq)
    \/ \E c \in Colors, sq \in SwapSquares : MoveClick(c, sq)
    \/ \E c \in Colors : FireAbility(c)
    \/ \E c \in Colors : Deliver(c)

SpecSwap == InitSwap /\ [][NextSwap]_vars

\* the modifier entry of a square, or that there is none
NoMod == [type |-> "-", activeTurn |-> "-"]
ModAt(m, sq) == IF sq \in DOMAIN m THEN m[sq] ELSE NoMod

\* the square a swap of a and b takes the content of sq from
SwapFrom(a, b, sq) == IF sq = a THEN b ELSE IF sq = b THEN a ELSE sq

\* C13 (as claimed): a swap of S with a different square T holding an own
\* piece commits
\* the two pieces exchanged, the modifier entries of S and T exchanged (an
\* absent entry absent on the other side), every other square as it was,
\* and the turn passed to the opponent
C13_SwapExchanges ==
    [][ ev'.kind = "swap"
        => ( /\ ev'.from # ev'.to
             /\ Get(local[ev'.c].chess, ev'.to).color = ev'.c
             /\ \A sq \in Squares :
                  /\ At(store'.fen.placement, sq)
                       = Get(local[ev'.c].chess, SwapFrom(ev'.from, ev'.to, sq))
                  /\ ModAt(store'.modifiers, sq)
                       = ModAt(local[ev'.c].modifiers, SwapFrom(ev'.from, ev'.to, sq))
             /\ store'.turn = Other(ev'.c)
             /\ store'.fen.side = Other(ev'.c) ) ]_vars

\* C14 (as claimed): with the swap state opened by a pickup (awaiting source
\* S, nothing selected), the mover's click on a different square holding an
\* own piece exchanges that piece with the piece on S
C14_PickupOpensSwap ==
    [][ ( /\ ev'.kind \in {"select", "swap"}
          /\ local[ev'.c].awaitingSwapSource # NoSq
          /\ local[ev'.c].selectedSquare = NoSq
          /\ ev'.to # local[ev'.c].awaitingSwapSource
          /\ Get(local[ev'.c].chess, ev'.to).color = ev'.c )
        => ( /\ ev'.kind = "swap"
             /\ Get(local'[ev'.c].chess, ev'.to)
                  = Get(local[ev'.c].chess, local[ev'.c].awaitingSwapSource)
             /\ Get(local'[ev'.c].chess, local[ev'.c].awaitingSwapSource)
                  = Get(local[ev'.c].chess, ev'.to) ) ]_vars

(***************************************************************************)
(* Builder and wall decay                                                  *)
(***************************************************************************)
\* the squares of a sequence of placements
PlacedSet(placed) == { placed[i] : i \in 1 .. Len(placed) }

\* C15 (as claimed): the third accepted placement commits three pairwise
\* distinct new walls of lifetime 2, every earlier wall with its lifetime
\* reduced by 1 and removed at 0, no modifier on the builder's square, and
\* the turn passed to the opponent
C15_BuilderResolves ==
    [][ ev'.kind = "builder"
        => LET L      == local[ev'.c]
               placed == Append(L.builderActive.placed, ev'.to)
               old    == DOMAIN L.walls \ PlacedSet(placed)
           IN /\ Len(placed) = BuilderPlacements
              /\ Cardinality(PlacedSet(placed)) = BuilderPlacements
              /\ \A sq \in PlacedSet(placed) :
                   sq \in DOMAIN store'.walls /\ store'.walls[sq] = WallLifetime
              /\ \A sq \in old :
                   IF L.walls[sq] - 1 > 0
                     THEN sq \in DOMAIN store'.walls /\ store'.walls[sq] = L.walls[sq] - 1
                     ELSE sq \notin DOMAIN store'.walls
              /\ DOMAIN store'.walls \subseteq DOMAIN L.walls \cup PlacedSet(placed)
              /\ ev'.from \notin DOMAIN store'.modifiers
              /\ store'.turn = Other(ev'.c) ]_vars

\* the kinds of the committing actions
Committing == {"move", "ghost", "swap", "sniper", "builder"}

\* the wall map w2 holds every wall of w1 with its lifetime reduced by 1,
\* and no wall of w1 whose lifetime reached 0
Decayed(w1, w2) ==
    \A sq \in DOMAIN w1 :
        IF w1[sq] - 1 > 0 THEN sq \in DOMAIN w2 /\ w2[sq] = w1[sq] - 1
                          ELSE sq \notin DOMAIN w2

\* C16: every committing action commits the walls of the last committed
\* state with their lifetime reduced by 1, without those that reached 0
C16_WallsDecay ==
    [][ ev'.kind \in Committing => Decayed(store.walls, store'.walls) ]_vars

(***************************************************************************)
(* The clock                                                               *)
(***************************************************************************)
\* the acting client's time after the elapsed seconds are charged
ChargedTime(L, c) == Max2(0, L.timeLeft[c] - ElapsedSeconds(L))

\* C17 (as claimed): every committing action commits the acting side's time
\* reduced by the whole seconds elapsed since lastMoveTime, floored at 0,
\* before any bonus (the increment, if one is added)
C17_ElapsedCharged ==
    [][ ev'.kind \in Committing
        => LET L == local[ev'.c]
           IN store'.timeLeft[ev'.c]
                \in { ChargedTime(L, ev'.c),
                      ChargedTime(L, ev'.c) + L.timeConfig.increment } ]_vars

\* C18 (as claimed): a committing action that passes the turn adds exactly
\* the increment to the mover's committed time, whether or not the elapsed
\* seconds were charged; one that keeps the turn adds nothing
C18_IncrementOnTurnPass ==
    [][ ev'.kind \in Committing
        => LET L   == local[ev'.c]
               inc == IF store'.turn # ev'.c THEN L.timeConfig.increment ELSE 0
           IN store'.timeLeft[ev'.c]
                \in { ChargedTime(L, ev'.c) + inc, L.timeLeft[ev'.c] + inc } ]_vars

\* the whole seconds between the last committed move and now
CommittedElapsed == (now - store.lastMoveTime) \div MsPerSecond

\* C19 (as claimed): an ordinary move that passes the turn commits
\* max(0, T - e) + increment for the mover, T being the mover's time in the
\* last committed state, whatever the display ticks did in between
C19_TicksDoNotCount ==
    [][ ( ev'.kind = "move" /\ store'.turn # ev'.c )
        => store'.timeLeft[ev'.c]
             = Max2(0, store.timeLeft[ev'.c] - CommittedElapsed)
               + store.timeConfig.increment ]_vars

(***************************************************************************)
(* Time upgrades                                                           *)
(***************************************************************************)
\* White to move on a document that holds a time_add upgrade on h3, above
\* the pawn on h2, and a time_sub upgrade on c3, in reach of the knight on b1
\* that carries martyrdom
ScenarioTime ==
    [board |-> Place({ << <<4, 1>>, Pc("k", "w") >>, << <<1, 1>>, Pc("n", "w") >>,
                       << <<7, 2>>, Pc("p", "w") >>, << <<4, 8>>, Pc("k", "b") >> }),
     turn |-> "w",
     upgrades |-> << Up(1, 7, 5, "time_add"), Up(2, 2, 5, "time_sub") >>,
     modifiers |-> [s \in { <<1, 1>> } |-> Mod("martyrdom", "b")],
     walls |-> EmptyMap]

\* the remaining times the documents are drawn with: below and above the
\* time_sub amount
TimeInputs == { TimeSubSeconds - 8, TimeSubSeconds + 5 }

InitTime ==
    \E tw \in TimeInputs, tb \in TimeInputs :
        LET doc == [ScenarioDoc(ScenarioTime) EXCEPT !.timeLeft = [w |-> tw, b |-> tb]]
        IN /\ store = doc
           /\ local = [c \in Colors |-> DocToLocal(doc)]
           /\ inbox = [c \in Colors |-> << >>]
           /\ now = StartNow
           /\ idSeed = 3
           /\ ev = Event("-", "init", NoSq, NoSq)
           /\ lobby = InGame

\* the squares the players click in the time scenario
TimeSquares == { <<1, 1>>, <<2, 3>>, <<0, 3>>, <<7, 2>>, <<7, 3>>, <<4, 1>>, <<4, 8>> }

NextTime ==
    \/ \E c \in Colors : ClickBlocked(c)
    \/ \E c \in Colors, sq \in TimeSquares : SelectClick(c, sq)
    \/ \E c \in Colors : DeselectClick(c)
    \/ \E c \in Colors, sq \in TimeSquares : MoveClick(c, sq)
    \/ \E c \in Colors : Deliver(c)
    \/ AdvanceTime

SpecTime == InitTime /\ [][NextTime]_vars

\* the type of the upgrade lying on the square, or "-"
UpgradeTypeOn(ups, sq) ==
    IF ConsumedIndex(ups, sq) = 0 THEN "-" ELSE ups[ConsumedIndex(ups, sq)].type

\* C20: a move onto a time_add upgrade commits 30 seconds more for the
\* mover, a move onto a time_sub upgrade 15 seconds less for the opponent,
\* floored at 0, on top of the elapsed charge and the increment; the
\* destination has no modifier entry afterwards
C20_TimeUpgrades ==
    [][ ( /\ ev'.kind = "move"
          /\ UpgradeTypeOn(local[ev'.c].upgrades, ev'.to) \in {"time_add", "time_sub"} )
        => LET c   == ev'.c
               L   == local[c]
               inc == IF store'.turn # c THEN L.timeConfig.increment ELSE 0
           IN /\ ev'.to \notin DOMAIN store'.modifiers
              /\ IF UpgradeTypeOn(L.upgrades, ev'.to) = "time_add"
                   THEN /\ store'.timeLeft[c] = ChargedTime(L, c) + TimeAddSeconds + inc
                        /\ store'.timeLeft[Other(c)] = L.timeLeft[Other(c)]
                   ELSE /\ store'.timeLeft[c] = ChargedTime(L, c) + inc
                        /\ store'.timeLeft[Other(c)]
                             = Max2(0, L.timeLeft[Other(c)] - TimeSubSeconds) ]_vars

\* C20 witness: the knight landed on the time_sub upgrade and the opponent's
\* time, less than 15 seconds, was floored at 0
C20_Witness ==
    /\ ev.kind = "move"
    /\ ev.to = <<2, 3>>
    /\ store.timeLeft[Other(ev.c)] = 0
    /\ ev.to \notin DOMAIN store.modifiers

(***************************************************************************)
(* History                                                                 *)
(***************************************************************************)
\* the sequence h2 is h1 with exactly one entry appended
OneAppended(h1, h2) ==
    /\ Len(h2) = Len(h1) + 1
    /\ SubSeq(h2, 1, Len(h1)) = h1

\* C21 (as claimed): every action that changes the position or passes the
\* turn, the move onto a swap pickup included, appends exactly one entry to
\* the acting client's history and leaves the earlier entries as they were;
\* a committing action commits that history, which extends the last
\* committed one by one entry
C21_HistoryAppends ==
    [][ ev'.kind \in Committing \cup {"swapPickup"}
        => ( /\ OneAppended(local[ev'.c].history, local'[ev'.c].history)
             /\ ev'.kind \in Committing
                  => ( /\ store'.history = local'[ev'.c].history
                       /\ OneAppended(store.history, store'.history) ) ) ]_vars

(***************************************************************************)
(* The end-of-turn passes                                                  *)
(***************************************************************************)
\* White to move with the king on g2 beside an upgrade on h2; the second
\* upgrade stands on (x, y); heavy is the one piece besides the kings, on b6,
\* or Empty
SpawnScenario(heavy, x, y) ==
    [board |-> SetAt(Place({ << <<6, 2>>, Pc("k", "w") >>, << <<4, 8>>, Pc("k", "b") >> }),
                     <<1, 6>>, heavy),
     turn |-> "w",
     upgrades |-> << Up(1, 7, 6, "martyrdom"), Up(2, x, y, "hidden_move") >>,
     modifiers |-> EmptyMap,
     walls |-> EmptyMap]

\* the piece on b6: a white queen (diff 9), a black rook (diff -5), nothing
HeavyInputs == { Pc("q", "w"), Pc("r", "b"), Empty }

\* the (x, y) of the second upgrade: g1, h3, a8, c6
UpgradeInputs == { <<6, 7>>, <<7, 5>>, <<0, 0>>, <<2, 2>> }

InitSpawn ==
    \E heavy \in HeavyInputs, u \in UpgradeInputs :
        LET doc == EarlyDoc(SpawnScenario(heavy, u[1], u[2]))
        IN /\ store = doc
           /\ local = [c \in Colors |-> DocToLocal(doc)]
           /\ inbox = [c \in Colors |-> << >>]
           /\ now = StartNow
           /\ idSeed = 3
           /\ ev = Event("-", "init", NoSq, NoSq)
           /\ lobby = InGame

\* the squares the players click: g2, h2, f3, e8, e7
SpawnSquares == { <<6, 2>>, <<7, 2>>, <<5, 3>>, <<4, 8>>, <<4, 7>> }

NextSpawn ==
    \/ \E c \in Colors : ClickBlocked(c)
    \/ \E c \in Colors, sq \in SpawnSquares : SelectClick(c, sq)
    \/ \E c \in Colors : DeselectClick(c)
    \/ \E c \in Colors, sq \in SpawnSquares : MoveClick(c, sq)
    \/ \E c \in Colors : Deliver(c)

SpecSpawn == InitSpawn /\ [][NextSpawn]_vars

\* how often the sequence holds the element
Copies(s, e) == Len(SelectSeq(s, LAMBDA v : v = e))

\* the material difference white - black of a placement
MaterialDiff(bd) ==
    LET val(c) == SumSeq([i \in 1 .. Len(ScanOrder) |->
                            LET p == At(bd, SqOfRC(ScanOrder[i].y, ScanOrder[i].x))
                            IN IF p.color = c THEN PieceValue(p.type) ELSE 0])
    IN val("w") - val("b")

\* the number of copies the pool is said to hold of the square (x, y)
ClaimedCopies(bd, ups, diff, sq) ==
    IF SqOfRC(sq.y, sq.x) \in DOMAIN bd
       \/ \E i \in 1 .. Len(ups) : ups[i].x = sq.x /\ ups[i].y = sq.y
      THEN 0
    ELSE IF diff >= LosingBadly /\ sq.y \in 0 .. 3 THEN HeavyWeight
    ELSE IF diff <= 0 - LosingBadly /\ sq.y \in 4 .. 7 THEN HeavyWeight
    ELSE 1

\* C22: whenever a committing action spawned an upgrade, the pool its
\* square was drawn from held every eligible square of rows 0..3 ten times
\* and every other eligible square once when diff >= 3, the same for rows
\* 4..7 when diff <= -3, every eligible square exactly once in between, and
\* no other square
C22_SpawnPoolWeights ==
    [][ ev'.kind \in Committing
        => \A i \in 1 .. Len(store'.upgrades) :
             store'.upgrades[i].id >= idSeed
               => \A diff \in { MaterialDiff(store'.fen.placement) } :
                  \A pool \in { SpawnPool(Load(store'.fen),
                                           SubSeq(store'.upgrades, 1, i - 1), diff) } :
                    /\ \A k \in 1 .. Len(ScanOrder) :
                         Copies(pool, ScanOrder[k])
                           = ClaimedCopies(store'.fen.placement,
                                           SubSeq(store'.upgrades, 1, i - 1),
                                           diff, ScanOrder[k])
                    /\ Copies(pool, [x |-> store'.upgrades[i].x,
                                     y |-> store'.upgrades[i].y]) > 0 ]_vars

\* C22 witness: with Black behind by 3 or more, a spawned upgrade stands on
\* a row of 0..3
C22_Witness ==
    /\ ev.kind \in Committing
    /\ MaterialDiff(store.fen.placement) >= LosingBadly
    /\ \E i \in 1 .. Len(store.upgrades) :
         store.upgrades[i].id >= 3 /\ store.upgrades[i].y <= 3

\* the keys of MODIFIER_DESCRIPTIONS: every ability type the game knows
AbilityTypes ==
    { "double_move", "martyrdom", "hidden_move", "swap", "ghost",
      "necromancer", "sniper", "builder", "time_add", "time_sub" }

\* the types spawnUpgrade can return over every value of Math.random() in
\* [0, 1): upgradeTypes[Math.floor(Math.random() * upgradeTypes.length)]
SpawnTypes(ch, ups) ==
    IF PossibleSquares(ch, ups) = << >> THEN {}
    ELSE { UpgradeTypes[t + 1] : t \in 0 .. (Len(UpgradeTypes) - 1) }

\* C23 (as claimed): on every committed position with a free square, each
\* ability type, time_add and time_sub included, is a type the spawner can
\* give a new upgrade
C23_EveryTypeSpawns ==
    \A t \in AbilityTypes :
        PossibleSquares(Load(store.fen), SubSeq(store.upgrades, 1, 1)) # << >>
          => t \in SpawnTypes(Load(store.fen), SubSeq(store.upgrades, 1, 1))

\* the upgrade list the end-of-turn passes of a committing action start
\* from: the acting client's list, without the upgrade a move landed on
PassInput(L, e) ==
    IF e.kind \in {"move", "ghost"} /\ ConsumedIndex(L.upgrades, e.to) # 0
      THEN Splice(L.upgrades, ConsumedIndex(L.upgrades, e.to))
      ELSE L.upgrades

\* the five candidates of an upgrade as <<x, y>>: stay, +x, -x, +y, -y
Candidates(u) ==
    << <<u.x, u.y>>, <<u.x + 1, u.y>>, <<u.x - 1, u.y>>,
       <<u.x, u.y + 1>>, <<u.x, u.y - 1>> >>

\* the candidate is on the board, holds no piece and no other upgrade
LegalCandidate(bd, ups, u, p) ==
    /\ p[1] \in 0 .. (BoardSize - 1) /\ p[2] \in 0 .. (BoardSize - 1)
    /\ <<p[1], BoardSize - p[2]>> \notin DOMAIN bd
    /\ ~ \E j \in 1 .. Len(ups) :
           ups[j].id # u.id /\ ups[j].x = p[1] /\ ups[j].y = p[2]

\* the squares holding a piece of the highest value on the board
MaxValueSquares(bd) ==
    { s \in DOMAIN bd : \A t \in DOMAIN bd : PieceValue(bd[t].type) <= PieceValue(bd[s].type) }

\* the sum of the Manhattan distances from <<x, y>> to those squares
RECURSIVE DistanceSum(_, _)
DistanceSum(ss, p) ==
    IF ss = {} THEN 0
    ELSE LET s == CHOOSE s \in ss : TRUE
         IN Abs(p[1] - s[1]) + Abs(p[2] - (BoardSize - s[2])) + DistanceSum(ss \ {s}, p)

\* the place the relocation pass is said to give the upgrade
ClaimedPlace(bd, ups, u) ==
    LET cs    == Candidates(u)
        ms    == MaxValueSquares(bd)
        legal == { k \in 1 .. Len(cs) : LegalCandidate(bd, ups, u, cs[k]) }
        best  == { k \in legal : \A j \in legal : DistanceSum(ms, cs[j]) <= DistanceSum(ms, cs[k]) }
    IN IF legal = {} \/ ms = {} THEN <<u.x, u.y>>
       ELSE cs[CHOOSE k \in best : \A j \in best : k <= j]

\* C29: in every committing action the relocation pass gives each upgrade
\* the first candidate, in the order stay, +x, -x, +y, -y, with the largest
\* sum of Manhattan distances to the squares of the highest-valued pieces
\* among the candidates on the board that hold no piece and no other
\* upgrade, and leaves it where it is when no candidate is legal; id and
\* type stay
C29_RelocationChoice ==
    [][ ev'.kind \in Committing
        => \A ups \in { PassInput(local[ev'.c], ev') } :
             \A i \in 1 .. Len(ups) :
               /\ store'.upgrades[i].id = ups[i].id
               /\ store'.upgrades[i].type = ups[i].type
               /\ <<store'.upgrades[i].x, store'.upgrades[i].y>>
                    = ClaimedPlace(store'.fen.placement, ups, ups[i]) ]_vars

\* C29 witness: a committed action after which the upgrade with id 2 stands
\* on another square than in the state committed before
C29_Witness ==
    /\ ev.kind \in Committing
    /\ Len(store.history) >= 2
    /\ \E i \in 1 .. Len(store.upgrades) :
         \E j \in 1 .. Len(store.history[Len(store.history) - 1].upgrades) :
           LET old == store.history[Len(store.history) - 1].upgrades[j]
           IN /\ store.upgrades[i].id = old.id
              /\ <<store.upgrades[i].x, store.upgrades[i].y>> # <<old.x, old.y>>

\* the upgrade's own square has a distance sum at least as large as every
\* legal neighbour's
AtLocalMaximum(bd, ups, u) ==
    LET cs == Candidates(u)
        ms == MaxValueSquares(bd)
    IN \A k \in 2 .. Len(cs) :
         LegalCandidate(bd, ups, u, cs[k])
           => DistanceSum(ms, cs[k]) <= DistanceSum(ms, cs[1])

\* the <<x, y>> of the upgrades of a list
Places(ups) == [i \in 1 .. Len(ups) |-> <<ups[i].x, ups[i].y>>]

\* C24 (as claimed): in the relocation pass of every committing action an
\* upgrade whose own square has a distance sum at least as large as every
\* legal neighbour's stays where it is, and when the pass moved no upgrade a
\* second pass on the same board moves none either
C24_RelocationIdempotent ==
    [][ ev'.kind \in Committing
        => \A ups \in { PassInput(local[ev'.c], ev') } :
             /\ \A i \in 1 .. Len(ups) :
                  AtLocalMaximum(store'.fen.placement, ups, ups[i])
                    => <<store'.upgrades[i].x, store'.upgrades[i].y>> = <<ups[i].x, ups[i].y>>
             /\ Places(RelocationPass(Load(store'.fen), ups)) = Places(ups)
                  => Places(RelocationPass(Load(store'.fen),
                                           RelocationPass(Load(store'.fen), ups)))
                       = Places(ups) ]_vars

(***************************************************************************)
(* Castling                                                                *)
(***************************************************************************)
\* White to move and free to castle to either side; an upgrade on f1 and one
\* on d1, the squares the rook lands on
ScenarioCastle ==
    [board |-> Place({ << <<4, 1>>, Pc("k", "w") >>, << <<7, 1>>, Pc("r", "w") >>,
                       << <<0, 1>>, Pc("r", "w") >>, << <<4, 8>>, Pc("k", "b") >> }),
     turn |-> "w",
     upgrades |-> << Up(1, 5, 7, "martyrdom"), Up(2, 3, 7, "hidden_move") >>,
     modifiers |-> EmptyMap,
     walls |-> EmptyMap]

CastleDoc ==
    [EarlyDoc(ScenarioCastle) EXCEPT !.fen.rights = { <<"w", "k">>, <<"w", "q">> }]

InitCastle ==
    /\ store = CastleDoc
    /\ local = [c \in Colors |-> DocToLocal(CastleDoc)]
    /\ inbox = [c \in Colors |-> << >>]
    /\ now = StartNow
    /\ idSeed = 3
    /\ ev = Event("-", "init", NoSq, NoSq)
    /\ lobby = InGame

\* the squares the players click: e1, g1, c1, f1, h1, e8, e7
CastleSquares == { <<4, 1>>, <<6, 1>>, <<2, 1>>, <<5, 1>>, <<7, 1>>, <<4, 8>>, <<4, 7>> }

NextCastle ==
    \/ \E c \in Colors : ClickBlocked(c)
    \/ \E c \in Colors, sq \in CastleSquares : SelectClick(c, sq)
    \/ \E c \in Colors : DeselectClick(c)
    \/ \E c \in Colors, sq \in CastleSquares : MoveClick(c, sq)
    \/ \E c \in Colors : Deliver(c)

SpecCastle == InitCastle /\ [][NextCastle]_vars

\* no upgrade of the document stands on a square that holds a piece
UpgradesOffPieces(doc) ==
    \A i \in 1 .. Len(doc.upgrades) :
        UpgradeSquare(doc.upgrades[i]) \notin DOMAIN doc.fen.placement

\* the upgrades of the acting client's list on whose square the action put a
\* piece
Covered(L, doc) ==
    { i \in 1 .. Len(L.upgrades) :
        /\ UpgradeSquare(L.upgrades[i]) \notin DOMAIN L.chess.board
        /\ UpgradeSquare(L.upgrades[i]) \in DOMAIN doc.fen.placement }

\* the upgrade with the id is in the list
HasId(ups, id) == \E j \in 1 .. Len(ups) : ups[j].id = id

\* C30: in every committed state no upgrade is on a square
\* that holds a piece, and every upgrade on whose square the action put a
\* piece, the rook of a castling move included, is removed
C30_CoveredUpgradeRemoved ==
    [][ ev'.kind \in Committing
        => /\ UpgradesOffPieces(store')
           /\ \A i \in Covered(local[ev'.c], store') :
                ~HasId(store'.upgrades, local[ev'.c].upgrades[i].id) ]_vars

\* what the code keeps of it: no upgrade of a committed state is on a square
\* that holds a piece; the upgrade on the destination square of a move is
\* removed, while an upgrade on the square the rook of a castling move lands
\* on stays in the list and is moved to a neighbouring square without a
\* piece
UpgradesLeavePieces ==
    [][ ev'.kind \in Committing
        => /\ UpgradesOffPieces(store')
           /\ \A i \in Covered(local[ev'.c], store') :
                LET u == local[ev'.c].upgrades[i]
                IN IF UpgradeSquare(u) = ev'.to
                     THEN ~HasId(store'.upgrades, u.id)
                     ELSE /\ IsCastle(local[ev'.c].chess.board, ev'.from, ev'.to)
                          /\ UpgradeSquare(u) = RookLanding(ev'.from, ev'.to)
                          /\ \E j \in 1 .. Len(store'.upgrades) :
                               /\ store'.upgrades[j].id = u.id
                               /\ getDist(store'.upgrades[j].x, store'.upgrades[j].y,
                                          u.x, u.y) = 1 ]_vars

\* White castled short, the rook stands on f1 and the upgrade that lay there
\* is still in the committed list
CastledOntoUpgrade ==
    /\ ev.kind = "move" /\ ev.from = <<4, 1>> /\ ev.to = <<6, 1>>
    /\ At(store.fen.placement, <<5, 1>>) = Pc("r", "w")
    /\ HasId(store.upgrades, 1)

(***************************************************************************)
(* Determinism of an action                                                *)
(***************************************************************************)
\* the upgrade lists the committing step may write, given the acting
\* client's state before the step, the click and the committed position
Outcomes(L, e, fen, id) ==
    processEndTurnSpawnsAndMoves(Load(fen), PassInput(L, e), id)

\* C27: the same action on the same game state always commits the same
\* document: the upgrade list a committing step writes is the only one the
\* action can produce from the acting client's state and click
C27_ActionDeterministic ==
    [][ ev'.kind \in Committing
        => \A outs \in { Outcomes(local[ev'.c], ev', store'.fen, idSeed) } :
             /\ store'.upgrades \in outs
             /\ \A ups \in outs : ups = store'.upgrades ]_vars

(***************************************************************************)
(* The peer's copy of a committed document                                 *)
(***************************************************************************)
\* the client's position, turn, upgrades, modifiers, walls, history and
\* winner are those of the document
Mirrors(L, doc) ==
    /\ Fen(L.chess) = doc.fen
    /\ L.turn = doc.turn
    /\ L.upgrades = doc.upgrades
    /\ L.modifiers = doc.modifiers
    /\ L.walls = doc.walls
    /\ L.history = doc.history
    /\ L.winner = doc.winner

LobbyClients == {1, 2}
\* the options of the two selects of the home page: minutes and seconds
TimeControls == {1, 5, 10}
Increments == {0, 1, 3}
SecondsPerMinute == 60
\* the most notifications a browser has not yet processed
MaxNotes == 2

\* the games table holds no row for the room
NoRow == [absent |-> TRUE]
HasRow(row) == "absent" \notin DOMAIN row

\* state.name || default
Field(doc, name, default) == IF name \in DOMAIN doc THEN doc[name] ELSE default

\* new Chess(): the standard start position with every castling right
BackRank == <<"r", "n", "b", "q", "k", "b", "n", "r">>
StartBoard ==
    [sq \in (0 .. (BoardSize - 1)) \X {1, 2, BoardSize - 1, BoardSize} |->
        IF sq[2] = 1 THEN Pc(BackRank[sq[1] + 1], "w")
        ELSE IF sq[2] = 2 THEN Pc("p", "w")
        ELSE IF sq[2] = BoardSize - 1 THEN Pc("p", "b")
        ELSE Pc(BackRank[sq[1] + 1], "b")]
StartChess == [board |-> StartBoard, turn |-> "w", rights |-> Colors \X {"k", "q"}]

\* the useState defaults of a ChessGame that has just been mounted
GameDefaults ==
    [chess |-> StartChess, turn |-> "w", upgrades |-> << >>,
     modifiers |-> EmptyMap, walls |-> EmptyMap, winner |-> NoWinner,
     timeConfig |-> DefaultTimeConfig,
     timeLeft |-> [w |-> DefaultTimeConfig.base, b |-> DefaultTimeConfig.base],
     lastMoveTime |-> NoTime, history |-> << >>]

NotMounted == [mounted |-> FALSE]
Mounted == [mounted |-> TRUE, fetch |-> "pending", state |-> GameDefaults]

\* fetchState with a row: the fields of the document, the defaults for the
\* absent ones
FetchedState(G, doc) ==
    [G EXCEPT !.chess = IF "fen" \in DOMAIN doc THEN Load(doc.fen) ELSE @,
              !.turn = Field(doc, "turn", "w"),
              !.upgrades = Field(doc, "upgrades", << >>),
              !.modifiers = Field(doc, "modifiers", EmptyMap),
              !.walls = Field(doc, "walls", EmptyMap),
              !.history = Field(doc, "history", << >>),
              !.winner = Field(doc, "winner", NoWinner),
              !.timeConfig = Field(doc, "timeConfig", @),
              !.timeLeft = Field(doc, "timeLeft", @),
              !.lastMoveTime = Field(doc, "lastMoveTime", @)]

\* the postgres_changes handler of ChessGame on a document of the lobby
NotifiedState(G, doc) ==
    [G EXCEPT !.chess = IF "fen" \in DOMAIN doc THEN Load(doc.fen) ELSE @,
              !.turn = doc.turn,
              !.upgrades = Field(doc, "upgrades", << >>),
              !.modifiers = Field(doc, "modifiers", EmptyMap),
              !.walls = Field(doc, "walls", EmptyMap),
              !.history = Field(doc, "history", << >>),
              !.winner = Field(doc, "winner", NoWinner),
              !.timeLeft = Field(doc, "timeLeft", @),
              !.lastMoveTime = Field(doc, "lastMoveTime", @)]

\* RoomPage's initialState and ChessGame's fallback initialState
RoomInitialState(color) ==
    [fen |-> Fen(StartChess), turn |-> "w", upgrades |-> << >>,
     modifiers |-> EmptyMap, walls |-> EmptyMap,
     players |-> [w |-> color = "w", b |-> color = "b"]]
FallbackInitialState ==
    [fen |-> Fen(StartChess), turn |-> "w", upgrades |-> << >>,
     modifiers |-> EmptyMap, walls |-> EmptyMap, history |-> << >>,
     winner |-> NoWinner]

\* setAvailableColors from a document that has a players field
Availability(old, doc) ==
    IF "players" \in DOMAIN doc
      THEN [w |-> ~doc.players.w, b |-> ~doc.players.b] ELSE old

\* a browser on the home page
AtHome ==
    [page |-> "home", playerColor |-> NoWinner,
     availableColors |-> [w |-> TRUE, b |-> TRUE],
     availability |-> "idle", pc |-> "idle", data |-> NoRow]

InitLobby ==
    /\ store = NoRow
    /\ local = EmptyMap
    /\ inbox = EmptyMap
    /\ now = StartNow
    /\ idSeed = 1
    /\ ev = Event("-", "init", NoSq, NoSq)
    /\ lobby = [params |-> << >>,
                room |-> [cl \in LobbyClients |-> AtHome],
                game |-> [cl \in LobbyClients |-> NotMounted],
                notes |-> [cl \in LobbyClients |-> << >>]]

\* a step of the lobby: the browsers, the row, the name of the step
LobbyStep(lb, row, kind) ==
    /\ lobby' = lb
    /\ store' = row
    /\ ev' = Event("-", kind, NoSq, NoSq)
    /\ UNCHANGED <<local, inbox, now, idSeed>>

\* RoomPage mounts: fetchAvailability starts, the lobby channel subscribes
EnterRoom(lb, cl) ==
    [lb EXCEPT !.room[cl] = [AtHome EXCEPT !.page = "room", !.availability = "pending"]]

\* handleCreateRoom: the chosen minutes and increment go into the URL only
CreateRoom(cl, t, i) ==
    /\ lobby.params = << >>
    /\ LobbyStep([EnterRoom(lobby, cl) EXCEPT !.params = <<t, i>>], store, "create")

\* handleJoinRoom with the code of the created room
JoinRoom(cl) ==
    /\ lobby.params # << >>
    /\ lobby.room[cl].page = "home"
    /\ LobbyStep(EnterRoom(lobby, cl), store, "join")

\* fetchAvailability: the answer of the select arrives
FetchAvailability(cl) ==
    /\ lobby.room[cl].availability = "pending"
    /\ LobbyStep([lobby EXCEPT !.room[cl].availability = "idle",
                               !.room[cl].availableColors =
                                   IF HasRow(store) THEN Availability(@, store) ELSE @],
                 store, "availability")

\* an UPDATE of the row reaches the browser: the lobby channel sets the
\* availability, the channel of a mounted ChessGame takes the document
LobbyNotified(cl) ==
    /\ lobby.notes[cl] # << >>
    /\ LET doc == Head(lobby.notes[cl])
       IN LobbyStep([lobby EXCEPT
                        !.notes[cl] = Tail(@),
                        !.room[cl].availableColors = Availability(@, doc),
                        !.game[cl] = IF @.mounted
                                       THEN [@ EXCEPT !.state = NotifiedState(@, doc)]
                                       ELSE @],
                    store, "notified")

\* handleSelectColor up to its first await: setPlayerColor, so ChessGame
\* mounts and starts fetchState, and the select of the row is sent
SelectColor(cl, color) ==
    /\ lobby.room[cl].page = "room"
    /\ lobby.room[cl].playerColor = NoWinner
    /\ lobby.room[cl].pc = "idle"
    /\ lobby.room[cl].availableColors[color]
    /\ LobbyStep([lobby EXCEPT !.room[cl].playerColor = color,
                               !.room[cl].pc = "read",
                               !.game[cl] = Mounted],
                 store, "select")

\* the answer of handleSelectColor's select
SelectColorRead(cl) ==
    /\ lobby.room[cl].pc = "read"
    /\ LobbyStep([lobby EXCEPT !.room[cl].pc = "write", !.room[cl].data = store],
                 store, "selectRead")

\* the UPDATE of the row is queued for every browser in the room
Notify(lb, doc) ==
    [lb EXCEPT !.notes = [cl \in LobbyClients |->
                             IF lb.room[cl].page = "room" THEN Append(@[cl], doc)
                             ELSE @[cl]]]

NotesFit == \A cl \in LobbyClients : Len(lobby.notes[cl]) < MaxNotes

\* handleSelectColor after the select: update of the row that was read with
\* the colour set, or insert of the initial document, which fails when the
\* room has a row by now (room_code is unique)
SelectColorWrite(cl) ==
    LET R == lobby.room[cl]
        done == [lobby EXCEPT !.room[cl].pc = "idle", !.room[cl].data = NoRow]
    IN /\ R.pc = "write"
       /\ NotesFit
       /\ IF HasRow(R.data)
            THEN LET players == Field(R.data, "players", [w |-> FALSE, b |-> FALSE])
                     newState == [x \in (DOMAIN R.data) \cup {"players"} |->
                                    IF x = "players"
                                      THEN [players EXCEPT ![R.playerColor] = TRUE]
                                      ELSE R.data[x]]
                 IN LobbyStep(Notify(done, newState), newState, "selectUpdate")
            ELSE LobbyStep(done,
                           IF HasRow(store) THEN store
                           ELSE RoomInitialState(R.playerColor),
                           "selectInsert")

\* fetchState of the mounted ChessGame: the answer of the select
FetchState(cl) ==
    /\ lobby.game[cl].mounted
    /\ lobby.game[cl].fetch = "pending"
    /\ LobbyStep([lobby EXCEPT !.game[cl] =
                     IF HasRow(store)
                       THEN [@ EXCEPT !.fetch = "done",
                                      !.state = FetchedState(@, store)]
                       ELSE [@ EXCEPT !.fetch = "insert"]],
                 store, "fetchState")

\* fetchState found no row (PGRST116): the fallback insert
FallbackInsert(cl) ==
    /\ lobby.game[cl].mounted
    /\ lobby.game[cl].fetch = "insert"
    /\ LobbyStep([lobby EXCEPT !.game[cl].fetch = "done"],
                 IF HasRow(store) THEN store ELSE FallbackInitialState,
                 "fallbackInsert")

NextLobby ==
    \/ \E cl \in LobbyClients, t \in TimeControls, i \in Increments : CreateRoom(cl, t, i)
    \/ \E cl \in LobbyClients : JoinRoom(cl)
    \/ \E cl \in LobbyClients : FetchAvailability(cl)
    \/ \E cl \in LobbyClients : LobbyNotified(cl)
    \/ \E cl \in LobbyClients, color \in Colors : SelectColor(cl, color)
    \/ \E cl \in LobbyClients : SelectColorRead(cl)
    \/ \E cl \in LobbyClients : SelectColorWrite(cl)
    \/ \E cl \in LobbyClients : FetchState(cl)
    \/ \E cl \in LobbyClients : FallbackInsert(cl)

SpecLobby == InitLobby /\ [][NextLobby]_vars

\* the game the client shows once fetchState has answered
Started(cl) == lobby.game[cl].mounted /\ lobby.game[cl].fetch = "done"

\* the state a game of the room starts with, for the chosen minutes and
\* increment
ClaimedStart(t, i) ==
    [chess |-> StartChess, turn |-> "w", upgrades |-> << >>,
     modifiers |-> EmptyMap, walls |-> EmptyMap, winner |-> NoWinner,
     timeConfig |-> [base |-> t * SecondsPerMinute, increment |-> i],
     timeLeft |-> [w |-> t * SecondsPerMinute, b |-> t * SecondsPerMinute],
     lastMoveTime |-> NoTime, history |-> << >>]

\* C25: a game of a room created with base time B and increment I starts
\* with timeConfig {B, I}, B seconds for either side, White to move, the
\* standard start position, no upgrades, modifiers, walls or history and no
\* winner
C25_GameStartsAsChosen ==
    \A cl \in LobbyClients :
        Started(cl)
        => lobby.game[cl].state = ClaimedStart(lobby.params[1], lobby.params[2])

\* C26: two browsers of the room never play the same colour
C26_ColourHeldOnce ==
    \A c1, c2 \in LobbyClients :
        (c1 # c2 /\ lobby.room[c1].playerColor # NoWinner)
        => lobby.room[c1].playerColor # lobby.room[c2].playerColor

(***************************************************************************)
(* Modifiers on pickup and capture                                         *)
(***************************************************************************)
\* White to move: the knight on b1 reaches the upgrade on c3 and the black
\* pawn on a3, the pawn on h2 carries necromancer and reaches the upgrade on
\* h3 and the black pawn on g3; both black pawns carry a modifier
ScenarioPickup(knightMod, upType) ==
    [board |-> Place({ << <<4, 1>>, Pc("k", "w") >>, << <<1, 1>>, Pc("n", "w") >>,
                       << <<7, 2>>, Pc("p", "w") >>, << <<4, 8>>, Pc("k", "b") >>,
                       << <<0, 3>>, Pc("p", "b") >>, << <<6, 3>>, Pc("p", "b") >> }),
     turn |-> "w",
     upgrades |-> << Up(1, 2, 5, upType), Up(2, 7, 5, "hidden_move") >>,
     modifiers |-> [s \in { <<0, 3>>, <<6, 3>>, <<7, 2>> }
                          \cup (IF knightMod = "-" THEN {} ELSE { <<1, 1>> }) |->
                      IF s = <<0, 3>> THEN Mod("builder", "w")
                      ELSE IF s = <<6, 3>> THEN Mod("martyrdom", "w")
                      ELSE IF s = <<7, 2>> THEN Mod("necromancer", "b")
                      ELSE Mod(knightMod, "b")],
     walls |-> EmptyMap]

\* the modifier the knight carries ("-" for none) and the type of the
\* upgrade on c3
KnightMods == {"-", "sniper", "double_move", "ghost"}
PickupTypes == {"martyrdom", "builder", "double_move"}

InitPickup ==
    \E km \in KnightMods, ut \in PickupTypes :
        /\ store = ScenarioDoc(ScenarioPickup(km, ut))
        /\ local = [c \in Colors |-> DocToLocal(store)]
        /\ inbox = [c \in Colors |-> << >>]
        /\ now = StartNow
        /\ idSeed = 3
        /\ ev = Event("-", "init", NoSq, NoSq)
        /\ lobby = InGame

\* the squares the players click: b1, c3, a3, h2, h3, g3, e1, e8
PickupSquares == { <<1, 1>>, <<2, 3>>, <<0, 3>>, <<7, 2>>, <<7, 3>>, <<6, 3>>,
                   <<4, 1>>, <<4, 8>> }

NextPickup ==
    \/ \E c \in Colors : ClickBlocked(c)
    \/ \E c \in Colors, sq \in PickupSquares : SelectClick(c, sq)
    \/ \E c \in Colors : DeselectClick(c)
    \/ \E c \in Colors, sq \in PickupSquares : MoveClick(c, sq)
    \/ \E c \in Colors : Deliver(c)

SpecPickup == InitPickup /\ [][NextPickup]_vars

\* the types a landing piece does not keep as a modifier
NotKept == {"swap", "time_add", "time_sub"}

\* C31: a piece that lands on an upgrade whose type is not swap, time_add or
\* time_sub removes the upgrade from the list and commits a modifier of the
\* upgrade's type at the destination, whatever modifier the piece carried
C31_PickupOverwrites ==
    [][ ev'.kind \in {"move", "ghost"}
        => \A i \in 1 .. Len(local[ev'.c].upgrades) :
             LET u == local[ev'.c].upgrades[i]
             IN (UpgradeSquare(u) = ev'.to /\ u.type \notin NotKept)
                => /\ ~HasId(store'.upgrades, u.id)
                   /\ HasType(store'.modifiers, ev'.to, u.type) ]_vars

\* C31 witness: the knight that carried sniper landed on c3, where an
\* upgrade of another type lay, and the committed destination has that type
C31_Witness ==
    /\ ev.kind = "move" /\ ev.from = <<1, 1>> /\ ev.to = <<2, 3>>
    /\ Len(store.history) > 1
    /\ HasType(store.history[1].modifiers, <<1, 1>>, "sniper")
    /\ HasType(store.modifiers, <<2, 3>>, "builder")

Snapshot(entry, doc) ==
    /\ entry.fen = doc.fen
    /\ entry.upgrades = doc.upgrades
    /\ entry.modifiers = doc.modifiers
    /\ entry.walls = doc.walls

\* C32: the history entry an action appends is a snapshot of the state the
\* same action commits: its position, upgrades, modifiers and walls are
\* those of the committed document
C32_EntryIsSnapshot ==
    [][ ev'.kind \in Committing
        => /\ store'.history # << >>
           /\ Snapshot(store'.history[Len(store'.history)], store') ]_vars

(***************************************************************************)
(* Leaving a pending mode                                                  *)
(***************************************************************************)
\* C33: while a swap, sniper or builder mode is pending, a handled click on
\* the selected square clears the selection and the three modes, discards
\* the builder placements, and changes neither the committed document nor
\* the client's position, turn, upgrades, modifiers, walls or clock
C33_ReclickLeavesMode ==
    [][ (ev'.kind = "deselect" /\ Pending(local[ev'.c]))
        => /\ local'[ev'.c].selectedSquare = NoSq
           /\ ~Pending(local'[ev'.c])
           /\ local'[ev'.c].builderActive = NoBuilder
           /\ store' = store
           /\ GameOf(local'[ev'.c]) = GameOf(local[ev'.c])
           /\ local'[ev'.c].lastMoveTime = local[ev'.c].lastMoveTime
           /\ local'[Other(ev'.c)] = local[Other(ev'.c)]
           /\ inbox' = inbox ]_vars

\* C33 witness: a client clicked its selected square again while a mode
\* was pending, and no mode is pending now
C33_Witness ==
    /\ ev.kind = "deselect" /\ ev.from # NoSq
    /\ ~Pending(local[ev.c]) /\ local[ev.c].selectedSquare = NoSq

(***************************************************************************)
(* The acting client and the store                                         *)
(***************************************************************************)
\* C34: after a handled click that changed the acting client's position or
\* turn, the client's position, turn, upgrades, modifiers, walls, history
\* and winner equal the document in the store
C34_ActorMirrorsStore ==
    [][ ( /\ ev'.c \in Colors
          /\ ev'.kind # "deliver"
          /\ \/ local'[ev'.c].chess # local[ev'.c].chess
             \/ local'[ev'.c].turn # local[ev'.c].turn )
        => Mirrors(local'[ev'.c], store') ]_vars

\* C35: a client writes a new document only when the turn of the document
\* it overwrites is its own colour, so the same client never commits two
\* turn-passing actions in a row
C35_WritesOnOwnTurn ==
    [][ ev'.kind \in Committing => store.turn = ev'.c ]_vars

(***************************************************************************)
(* After the game is decided                                               *)
(***************************************************************************)
\* White to move: a rook on a1 carrying swap next to a knight, a pawn on g2
\* carrying sniper below a swap upgrade on g3, and a black pawn on e4
\* carrying sniper, three squares from the white king on e1
ScenarioOver ==
    [board |-> Place({ << <<4, 1>>, Pc("k", "w") >>, << <<0, 1>>, Pc("r", "w") >>,
                       << <<1, 1>>, Pc("n", "w") >>, << <<6, 2>>, Pc("p", "w") >>,
                       << <<4, 4>>, Pc("p", "b") >>, << <<4, 8>>, Pc("k", "b") >> }),
     turn |-> "w",
     upgrades |-> << Up(1, 6, 5, "swap"), Up(2, 0, 2, "hidden_move") >>,
     modifiers |-> [s \in { <<0, 1>>, <<6, 2>>, <<4, 4>> } |->
                      IF s = <<0, 1>> THEN Mod("swap", "b") ELSE Mod("sniper", "w")],
     walls |-> EmptyMap]

InitOver ==
    /\ store = EarlyDoc(ScenarioOver)
    /\ local = [c \in Colors |-> DocToLocal(store)]
    /\ inbox = [c \in Colors |-> << >>]
    /\ now = StartNow
    /\ idSeed = 3
    /\ ev = Event("-", "init", NoSq, NoSq)
    /\ lobby = InGame

\* the squares the players click: a1, b1, e1, d1, g2, g3, e4, e8
OverSquares == { <<0, 1>>, <<1, 1>>, <<4, 1>>, <<3, 1>>, <<6, 2>>, <<6, 3>>,
                 <<4, 4>>, <<4, 8>> }

NextOver ==
    \/ \E c \in Colors : ClickBlocked(c)
    \/ \E c \in Colors, sq \in OverSquares : SelectClick(c, sq)
    \/ \E c \in Colors : DeselectClick(c)
    \/ \E c \in Colors, sq \in OverSquares : SwapClick(c, sq)
    \/ \E c \in Colors, sq \in OverSquares : SniperClick(c, sq)
    \/ \E c \in Colors, sq \in OverSquares : MoveClick(c, sq)
    \/ \E c \in Colors : FireAbility(c)
    \/ \E c \in Colors : Deliver(c)

SpecOver == InitOver /\ [][NextOver]_vars

\* the committed winner, position, turn, upgrades, modifiers, walls, clock
\* and history
Decided(doc) ==
    <<doc.winner, doc.fen, doc.turn, doc.upgrades, doc.modifiers, doc.walls,
      doc.timeLeft, doc.history>>

\* C36: once the committed winner is 'w' or 'b', no step changes the
\* committed winner, position, turn, upgrades, modifiers, walls, clock or
\* history
C36_DecidedGameIsFrozen ==
    [][ store.winner # NoWinner => Decided(store') = Decided(store) ]_vars

(***************************************************************************)
(* The pending modes                                                       *)
(***************************************************************************)
\* the pending modes of a client
ModesSet(L) ==
    { m \in {"swap", "sniper", "builder"} :
        \/ m = "swap" /\ L.awaitingSwapSource # NoSq
        \/ m = "sniper" /\ L.sniperAttacker # NoSq
        \/ m = "builder" /\ L.builderActive.on }

\* C37: in every reachable state each client has at most one of the three
\* pending modes set
C37_OneModeAtMost ==
    \A c \in Colors : Cardinality(ModesSet(local[c])) <= 1

\* C37 witness: a move landed on a swap upgrade and left the swap mode
\* pending, the only mode of that client
C37_Witness ==
    /\ ev.kind = "swapPickup"
    /\ ModesSet(local[ev.c]) = {"swap"}

(***************************************************************************)
(* Turn field and fen                                                      *)
(***************************************************************************)
\* C38: in every committed document the turn field is the side to move of
\* the fen field
C38_TurnMatchesFen ==
    store.turn = store.fen.side

\* C38 witness: a committed action that flipped the side to move by hand (a
\* builder, swap, sniper or ghost action) left turn and fen in agreement
C38_Witness ==
    /\ ev.kind \in {"builder", "swap", "sniper", "ghost"}
    /\ store.turn = store.fen.side
    /\ store.turn = Other(ev.c)

(***************************************************************************)
(* The room document under game actions                                    *)
(***************************************************************************)
\* the first moves the players make: e2-e4, e7-e5
OpeningMoves == { << <<4, 2>>, <<4, 4>> >>, << <<4, 7>>, <<4, 5>> >> }
\* the most moves played in the room
MaxRoomMoves == 1

\* handleSquareClick of a started game, on an own piece and then on a square
\* the piece can move to, with no modifier, upgrade or wall on the board and
\* no mode pending: the whole document is replaced and the UPDATE notified
OpeningMove(cl, from, to) ==
    LET G   == lobby.game[cl].state
        c   == lobby.room[cl].playerColor
        ch1 == Move(G.chess, from, to)
        win == IF IsCheckmate(ch1) THEN c ELSE G.winner
        tl  == AddIncrement(ChargeElapsed(G, c), c, ch1.turn, G.turn,
                            G.timeConfig.increment)
    IN /\ Started(cl)
       /\ HasRow(store)
       /\ G.winner = NoWinner /\ G.turn = c /\ G.timeLeft[c] > 0
       /\ Len(Field(store, "history", << >>)) < MaxRoomMoves
       /\ NotesFit
       /\ G.upgrades = << >> /\ G.modifiers = EmptyMap /\ G.walls = EmptyMap
       /\ Get(G.chess, from).color = c
       /\ CanMove(G.chess, from, to)
       /\ \E nextUps \in processEndTurnSpawnsAndMoves(ch1, G.upgrades, idSeed) :
            LET hist == Append(G.history,
                               HistoryEntry(ch1, nextUps, G.modifiers, G.walls,
                                            Event(c, "move", from, to)))
                doc  == NewState(ch1, ch1.turn, nextUps, G.modifiers,
                                 decayWalls(G.walls), hist, win, G.timeConfig, tl)
            IN /\ store' = doc
               /\ lobby' = Notify([lobby EXCEPT !.game[cl].state =
                                      [G EXCEPT !.chess = ch1, !.turn = ch1.turn,
                                                !.upgrades = nextUps,
                                                !.timeLeft = tl, !.lastMoveTime = now,
                                                !.history = hist, !.winner = win]],
                                  doc)
               /\ idSeed' = idSeed + NewIds(nextUps, G.upgrades)
               /\ ev' = Event(c, "move", from, to)
               /\ UNCHANGED <<local, inbox, now>>

\* browser 1 created the room with the default choice, took White and its
\* game has started; browser 2 is on the home page
InitRoom ==
    /\ store = RoomInitialState("w")
    /\ local = EmptyMap
    /\ inbox = EmptyMap
    /\ now = StartNow
    /\ idSeed = 1
    /\ ev = Event("-", "fetchState", NoSq, NoSq)
    /\ lobby = [params |-> <<5, 3>>,
                room |-> [cl \in LobbyClients |->
                            IF cl = 1 THEN [AtHome EXCEPT !.page = "room",
                                                          !.playerColor = "w"]
                            ELSE AtHome],
                game |-> [cl \in LobbyClients |->
                            IF cl = 1 THEN [Mounted EXCEPT !.fetch = "done"]
                            ELSE NotMounted],
                notes |-> [cl \in LobbyClients |-> << >>]]

\* the row exists from the start, so no fetchState takes the fallback
NextRoom ==
    \/ \E cl \in LobbyClients : JoinRoom(cl)
    \/ \E cl \in LobbyClients : FetchAvailability(cl)
    \/ \E cl \in LobbyClients : LobbyNotified(cl)
    \/ \E cl \in LobbyClients, color \in Colors : SelectColor(cl, color)
    \/ \E cl \in LobbyClients : SelectColorRead(cl)
    \/ \E cl \in LobbyClients : SelectColorWrite(cl)
    \/ \E cl \in LobbyClients : FetchState(cl)
    \/ \E cl \in LobbyClients, m \in OpeningMoves : OpeningMove(cl, m[1], m[2])

SpecRoom == InitRoom /\ [][NextRoom]_vars

\* the colour is marked as taken in the room document
Taken(row, c) == HasRow(row) /\ "players" \in DOMAIN row /\ row.players[c]

\* C39: no game action makes a colour that is marked as taken in the stored
\* room document available again
C39_ClaimedColourStaysTaken ==
    [][ ev'.kind = "move"
        => \A c \in Colors : Taken(store, c) => Taken(store', c) ]_vars

====
